---- MODULE Spec2Model ----
(***************************************************************************)
(* The Pod Manager of the Alation Connector Manager (ACM): one pod id, its  *)
(* Event Watcher, Server Health Checker, Garbage Collector, External Handle *)
(* shim, reaper and registry entry, together with the HTTP requests         *)
(* (/wait, /refresh, /delete) that act on it and the Kubernetes watch       *)
(* stream that feeds it.                                                    *)
(*                                                                          *)
(* Every tokio task is a process with a program counter; an action is the   *)
(* code a task runs between two suspension points (.await).  Channels are   *)
(* tokio mpsc/oneshot channels: a send fails once the receiver is dropped,  *)
(* a receive yields None once the buffer is empty and the sender dropped.   *)
(*                                                                          *)
(* Time is in seconds.  A deadline (tokio::time::Instant) is kept as the    *)
(* number of seconds it lies ahead of the present, 0 once it has passed;    *)
(* a clock step moves every deadline nearer.                                *)
(***************************************************************************)
EXTENDS Integers, Sequences, FiniteSets, TLC

(* ------------------------------ bounds --------------------------------- *)
\* largest ttl (seconds) a /deploy request asks for
MaxTtl == 1
\* number of /wait requests issued against the pod
MaxWaits == 2
\* number of /refresh requests issued against the pod
MaxRefreshes == 1
\* signals a producer sends on the status channel when it is left open
MaxSignals == 3

(* ------------------------- program constants --------------------------- *)
\* external_handle.rs: the shim waits this many seconds for a consumer
PATIENCE == 60
\* podmanager/mod.rs: capacity of the watcher -> GC status channel
STATUS_CAPACITY == 100
\* external_handle.rs: capacity of the inbound and of the outbound channel
HANDLE_CAPACITY == 1
\* external_handle.rs: number of parties of the barrier
BARRIER_PARTIES == 2

\* server_check.rs: MAXIMUM_POLLING_TIME, seconds
MAXIMUM_POLLING_TIME == 30

\* the intervals next_backoff() hands out, in seconds on a grid of ten: the
\* default ExponentialBackoff starts under a second and has grown to some
\* twenty seconds by the time thirty have elapsed
BackoffIntervals == {0, 10, 20}

\* the one pod id this model deploys
PodId == "pod"
\* an id that is never deployed
OtherId == "other"
\* the ids a request can name
Ids == {PodId, OtherId}

VARIABLES
    deployPc,     \* progress of PodManager::new_podmanager
    ttl,          \* the ttl given to new_podmanager
    cache,        \* POD_MANAGER_CACHE: the ids that have an entry
    reaperPc,     \* the reaper task of new_podmanager
    removals,     \* how often the reaper has called managers.remove
    owner,        \* the Pod Manager that the registry maps the id to
    later,        \* a later Pod Manager created with the same id
    wPc,          \* Event Watcher: position in watch()/terminate()
    wErr,         \* Event Watcher: the error it terminates with
    pod,          \* Event Watcher: the saved pod snapshot (let mut pod)
    backoff,      \* Event Watcher: its ExponentialBackoff (let mut backoff)
    hcPc,         \* Health Checker task: position in check()
    hcOut,        \* Health Checker: value sent on its result oneshot
    sigint,       \* Health Checker: cancellation oneshot holds a value
    latest_error, \* Health Checker: latest_error.is_some()
    elapsed,      \* Health Checker: b.get_elapsed_time(), in seconds
    inbound,      \* External Handle: buffer of channel tx1 -> rx1
    verdictLog,   \* history: verdicts the watcher handed to send_result
    status,       \* buffer of the watcher -> GC status channel
    sentLog,      \* history: signals the watcher handed to gc_status_signal
    shimPc,       \* shim task of the External Handle
    shimResult,   \* shim: the verdict it received
    shimDeadline, \* shim: seconds until its patience runs out
    arrived,      \* barrier: number of parties that called wait()
    outbound,     \* External Handle: buffer of channel tx2 -> rx2
    lock,         \* the Mutex around the PodManager: who holds it
    reqPc,        \* position of the HTTP request that holds the mutex
    phantom,      \* PodManagerUpperHandle.phantom
    waitLog,      \* history: results returned by PodManager::wait
    refreshCalls, \* how many /refresh requests were issued
    refreshQ,     \* buffer of the refresh channel (facade -> GC)
    reply,        \* the reply oneshot of the refresh in flight
    ticketLog,    \* history: results returned by GarbageCollector::refresh
    late,         \* history: the refresh in flight began after the watcher saw the pod end
    gcPc,         \* Garbage Collector task: position in gc()
    keep_alive,   \* Garbage Collector: its current KeepAliveTicket
    podDeleted,   \* Kubernetes: a delete of the pod was accepted
    deleteBy      \* history: the components that issued a delete of the pod

pmVars   == <<deployPc, ttl, cache, reaperPc, removals, owner, later>>
wVars    == <<wPc, wErr, pod, backoff>>
hcVars   == <<hcPc, hcOut, sigint, latest_error, elapsed>>
inVars   == <<inbound, verdictLog>>
stVars   == <<status, sentLog>>
shimVars == <<shimPc, shimResult, shimDeadline, arrived, outbound>>
httpVars == <<lock, reqPc, phantom, waitLog, refreshCalls, refreshQ, reply, ticketLog,
              late>>
gcVars   == <<gcPc, keep_alive>>
k8sVars  == <<podDeleted, deleteBy>>

vars == <<pmVars, wVars, hcVars, inVars, stVars, shimVars, httpVars,
          gcVars, k8sVars>>

(* ------------------------------ values --------------------------------- *)
\* A pod as the watch stream reports it, reduced to what PodExt derives.
Snapshot(r, t, c, e, a) ==
    [running |-> r, terminated |-> t, crashed |-> c, err_image_pull |-> e,
     address |-> a]

\* Pod::default(): no status at all
PodDefault == Snapshot(FALSE, FALSE, FALSE, FALSE, FALSE)

\* the pods an Applied event carries in this model
PodSnapshots ==
    { PodDefault,
      Snapshot(TRUE, FALSE, FALSE, FALSE, TRUE),     \* running, has an IP
      Snapshot(TRUE, FALSE, FALSE, FALSE, FALSE),    \* running, no IP yet
      Snapshot(FALSE, TRUE, FALSE, FALSE, FALSE),    \* a container terminated
      Snapshot(FALSE, FALSE, TRUE, FALSE, FALSE),    \* CrashLoopBackOff
      Snapshot(FALSE, FALSE, FALSE, TRUE, FALSE),    \* ErrImagePull
      Snapshot(TRUE, TRUE, TRUE, TRUE, FALSE),       \* one container runs, others failed
      Snapshot(FALSE, TRUE, FALSE, TRUE, FALSE) }    \* one terminated, one ErrImagePull

\* what client.try_next() yields: Err(_), Ok(None), Ok(Some(event))
WatchEvents ==
    { [type |-> t, pod |-> PodDefault, exhausted |-> FALSE] :
          t \in {"Added", "Restarted", "Deleted", "EOF"} }
    \cup { [type |-> "Applied", pod |-> p, exhausted |-> FALSE] : p \in PodSnapshots }
    \cup { [type |-> "Error", pod |-> PodDefault, exhausted |-> x] : x \in BOOLEAN }

\* result::Result<Pod>
Ok(p)  == [ok |-> TRUE, pod |-> p, err |-> "none"]
Err(e) == [ok |-> FALSE, pod |-> PodDefault, err |-> e]
NoResult == [ok |-> FALSE, pod |-> PodDefault, err |-> "none"]

\* GcStatus
Running(p) == [sig |-> "Running", pod |-> p]
Terminated == [sig |-> "Terminated", pod |-> PodDefault]

\* a ticket whose deadline is counted from the deadline of the current ticket
KeepAliveTicketAccumulating(id, secs) ==
    [ticket |-> id, execution_date |-> keep_alive.execution_date + secs,
     execution_instant |-> keep_alive.execution_instant + secs]

\* KeepAliveTicket::new(pod, ttl): now + ttl.  An instant is kept as its
\* distance in seconds from the present (0 once it has passed)
KeepAliveTicket(id, secs) ==
    [ticket |-> id, execution_date |-> secs, execution_instant |-> secs]
NoTicket == [ticket |-> "none", execution_date |-> 0, execution_instant |-> 0]

(* --------------------------- task liveness ----------------------------- *)
WatcherDone == wPc = "done"
GcDone      == gcPc \in {"done", "panicked"}
ShimDone    == shimPc \in {"done", "expired"}
HcDone      == hcPc = "done"

\* the receiver of a channel lives as long as the task that owns it
StatusRxOpen  == ~GcDone
RefreshRxOpen == ~GcDone
InboundRxOpen == ~ShimDone

Init ==
    /\ deployPc = "idle" /\ ttl = 0 /\ cache = {} /\ reaperPc = "none"
    /\ removals = 0 /\ owner = "none" /\ later = "none"
    /\ wPc = "none" /\ wErr = "none" /\ pod = PodDefault /\ backoff = "none"
    /\ hcPc = "none" /\ hcOut = "none" /\ sigint = FALSE /\ latest_error = FALSE
    /\ elapsed = 0
    /\ inbound = <<>> /\ verdictLog = <<>>
    /\ status = <<>> /\ sentLog = <<>>
    /\ shimPc = "none" /\ shimResult = NoResult /\ shimDeadline = 0
    /\ arrived = 0 /\ outbound = <<>>
    /\ lock = "free" /\ reqPc = "idle" /\ phantom = NoResult /\ waitLog = <<>>
    /\ refreshCalls = 0 /\ refreshQ = 0 /\ reply = NoTicket /\ ticketLog = <<>>
    /\ late = FALSE
    /\ gcPc = "none" /\ keep_alive = NoTicket
    /\ podDeleted = FALSE /\ deleteBy = {}

(* ------------------------------- clock --------------------------------- *)
\* the amounts by which the clock advances in one step
TickSizes == {1, PATIENCE}

\* the GC sleeps on a ticket whose deadline lies ahead
TicketPending == gcPc \in {"patch", "counting"} /\ keep_alive.execution_instant > 0

\* the shim sleeps on its patience timer
PatiencePending == shimPc = "barrier" /\ shimDeadline > 0

\* an instant d seconds later: d seconds nearer, or passed
Later(instant, d) == IF instant > d THEN instant - d ELSE 0

\* a ticket d seconds later
TicketLater(ticket, d) ==
    [ticket EXCEPT !.execution_date = Later(@, d),
                   !.execution_instant = Later(@, d)]

\* Time passes.  Only time that passes while a timer is pending can change
\* what the program does, so the clock is advanced only then: by a second
\* while a ticket is pending, by the shim's patience while the shim waits.
Tick(d) ==
    /\ d = 1 => TicketPending
    /\ d = PATIENCE => PatiencePending
    /\ keep_alive' = TicketLater(keep_alive, d)
    /\ shimDeadline' = Later(shimDeadline, d)
    /\ reply' = TicketLater(reply, d)
    /\ ticketLog' = [i \in DOMAIN ticketLog |->
                       [ticketLog[i] EXCEPT !.ticket = TicketLater(@, d)]]
    /\ UNCHANGED <<gcPc, shimPc, shimResult, arrived, outbound, lock, reqPc,
                   phantom, waitLog, refreshCalls, refreshQ, late>>
    /\ UNCHANGED <<pmVars, wVars, hcVars, inVars, stVars, k8sVars>>

(* ----------------------- PodManager and registry ----------------------- *)
\* new_podmanager up to and including the spawn of the reaper: the shim, the
\* watcher, the GC and the reaper are running, the entry is not inserted yet
NewPodManagerSpawn(t) ==
    /\ deployPc = "idle"
    /\ deployPc' = "spawned"
    /\ ttl' = t
    /\ shimPc' = "recv"
    /\ wPc' = "p1"
    /\ backoff' = "fresh"
    /\ gcPc' = "armed"
    /\ reaperPc' = "join"
    /\ UNCHANGED <<cache, removals, owner, later>>
    /\ UNCHANGED <<wErr, pod, shimResult, shimDeadline, arrived,
                   outbound, keep_alive>>
    /\ UNCHANGED <<hcVars, inVars, stVars, httpVars, k8sVars>>

\* new_podmanager: POD_MANAGER_CACHE.write().await.insert(pod, manager)
NewPodManagerInsert ==
    /\ deployPc = "spawned"
    /\ deployPc' = "inserted"
    /\ cache' = cache \cup {PodId}
    /\ owner' = "first"
    /\ UNCHANGED <<ttl, reaperPc, removals, later>>
    /\ UNCHANGED <<wVars, hcVars, inVars, stVars, shimVars, httpVars,
                   gcVars, k8sVars>>

\* a reaper that joins the watcher and the GC but not the shim
JoinedWithoutShim == WatcherDone /\ GcDone

\* the watcher has received Deleted from the stream (in any phase), or
\* Restarted in Phase 3
WatcherSawEnd ==
    \/ wErr = "PodDeleted"
    \/ wPc = "done" /\ wErr = "none"
    \/ wErr = "PodRebooted" /\ verdictLog # <<>> /\ verdictLog[1].ok

\* join!(watcher_handle, gc_handle, shim) has completed
Joined == WatcherDone /\ GcDone /\ ShimDone

\* a reaper that removes the entry only if it is its own Pod Manager's
ReaperOwnEntry ==
    /\ reaperPc = "join"
    /\ Joined
    /\ cache' = IF owner = "first" THEN cache \ {PodId} ELSE cache
    /\ owner' = IF owner = "first" THEN "none" ELSE owner
    /\ removals' = removals + 1
    /\ reaperPc' = "done"
    /\ UNCHANGED <<deployPc, ttl, later>>
    /\ UNCHANGED <<wVars, hcVars, inVars, stVars, shimVars, httpVars,
                   gcVars, k8sVars>>

\* the reaper task: join the three daemons, then remove the entry
Reaper ==
    /\ reaperPc = "join"
    /\ Joined
    /\ cache' = cache \ {PodId}
    /\ owner' = "none"
    /\ removals' = removals + 1
    /\ reaperPc' = "done"
    /\ UNCHANGED <<deployPc, ttl, later>>
    /\ UNCHANGED <<wVars, hcVars, inVars, stVars, shimVars, httpVars,
                   gcVars, k8sVars>>

(* ---------------------------- Event Watcher ---------------------------- *)
\* Kubernetes reports Deleted only for a pod whose delete it has accepted
Deliverable(ev) == ev.type = "Deleted" => podDeleted

\* a status send that waits for a receiver to take the signal
SendStatusNeedsReceiver(s) ==
    /\ StatusRxOpen
    /\ Len(status) < STATUS_CAPACITY
    /\ sentLog' = Append(sentLog, s)
    /\ status' = Append(status, s)

\* self.gc_status_signal.send(s).await: Err once the GC dropped its receiver
SendStatus(s) ==
    /\ StatusRxOpen => Len(status) < STATUS_CAPACITY
    /\ sentLog' = Append(sentLog, s)
    /\ status' = IF StatusRxOpen THEN Append(status, s) ELSE status

\* self.pod_manager_handle.send(v).await: waits for room in the buffer, Err
\* once the shim dropped its receiver
send_result(v) ==
    /\ InboundRxOpen => Len(inbound) < HANDLE_CAPACITY
    /\ verdictLog' = Append(verdictLog, v)
    /\ inbound' = IF InboundRxOpen THEN Append(inbound, v) ELSE inbound

\* EventWatcherDaemon::kill_gc
kill_gc == SendStatus(Terminated)

\* a kill_pod that issues no request
kill_pod_skipped == UNCHANGED k8sVars

\* EventWatcherDaemon::kill_pod: client.delete(&self.pod_id, ..).await
kill_pod ==
    /\ podDeleted' = TRUE
    /\ deleteBy' = deleteBy \cup {"watcher"}

\* the watcher stays where it is (continue)
Continue == UNCHANGED <<wPc, wErr, pod, stVars, hcVars>>

\* a backoff that no event resets
BackoffNeverReset(ev) ==
    IF ev.type = "Error" THEN (IF ev.exhausted THEN backoff ELSE "used")
    ELSE backoff

\* the backoff after try_next() yielded ev: an error takes the next interval
\* from it (none is left when it is exhausted), an event resets it.  It is
\* "fresh" as ExponentialBackoff::default() or reset() leave it and "used"
\* once next_backoff() has handed out an interval since
BackoffAfter(ev) ==
    IF ev.type = "Error" THEN (IF ev.exhausted THEN backoff ELSE "used")
    ELSE "fresh"

\* self.terminate(e) is entered: its first await is send_result
EnterTerminate(e) ==
    /\ wPc' = "t_send"
    /\ wErr' = e
    /\ UNCHANGED <<pod, stVars, hcVars>>

\* a Phase 1 that starts the health check without signalling the GC
Phase1RunningUnsignalled(p) ==
    /\ pod' = p
    /\ UNCHANGED stVars
    /\ IF ~p.address
         THEN /\ wPc' = "t_send"
              /\ wErr' = "PodHasNoIp"
              /\ UNCHANGED hcVars
         ELSE /\ wPc' = "p2"
              /\ hcPc' = "backoff"
              /\ UNCHANGED <<wErr, hcOut, sigint, latest_error, elapsed>>

\* Phase 1, Applied(p) with p.running(): save p, signal the GC, then
\* ServerCheck::new(&pod) spawns the checker or fails on pod.address()
Phase1Running(p) ==
    /\ pod' = p
    /\ SendStatus(Running(p))
    /\ IF ~StatusRxOpen
         THEN /\ wPc' = "t_send"
              /\ wErr' = "GarbageCollectorUnresponsive"
              /\ UNCHANGED hcVars
         ELSE IF ~p.address
                THEN /\ wPc' = "t_send"
                     /\ wErr' = "PodHasNoIp"
                     /\ UNCHANGED hcVars
                ELSE /\ wPc' = "p2"
                     /\ hcPc' = "backoff"
                     /\ UNCHANGED <<wErr, hcOut, sigint, latest_error, elapsed>>

\* a Phase 1 that looks for a failed container before it looks for a running one
Phase1CrashedFirst(ev) ==
    /\ wPc = "p1"
    /\ Deliverable(ev)
    /\ backoff' = BackoffAfter(ev)
    /\ CASE ev.type = "Error" /\ ~ev.exhausted -> Continue
         [] ev.type = "Error" /\ ev.exhausted  -> EnterTerminate("KubernetesUnresponsive")
         [] ev.type = "EOF"       -> EnterTerminate("UnexpectedCloseOfEventStream")
         [] ev.type = "Added"     -> Continue
         [] ev.type = "Deleted"   -> EnterTerminate("PodDeleted")
         [] ev.type = "Restarted" -> Continue
         [] ev.type = "Applied"   ->
              IF ev.pod.terminated \/ ev.pod.crashed
                THEN EnterTerminate("PodCrashed")
              ELSE IF ev.pod.running THEN Phase1Running(ev.pod)
              ELSE IF ev.pod.err_image_pull
                     THEN EnterTerminate("ErrImagePull")
              ELSE Continue
    /\ UNCHANGED <<pmVars, inVars, shimVars, httpVars, gcVars, k8sVars>>

\* Phase 1: one iteration of the loop over the watch stream
Phase1(ev) ==
    /\ wPc = "p1"
    /\ Deliverable(ev)
    /\ backoff' = BackoffAfter(ev)
    /\ CASE ev.type = "Error" /\ ~ev.exhausted -> Continue
         [] ev.type = "Error" /\ ev.exhausted  -> EnterTerminate("KubernetesUnresponsive")
         [] ev.type = "EOF"       -> EnterTerminate("UnexpectedCloseOfEventStream")
         [] ev.type = "Added"     -> Continue
         [] ev.type = "Deleted"   -> EnterTerminate("PodDeleted")
         [] ev.type = "Restarted" -> Continue
         [] ev.type = "Applied"   ->
              IF ev.pod.running THEN Phase1Running(ev.pod)
              ELSE IF ev.pod.terminated \/ ev.pod.crashed
                     THEN EnterTerminate("PodCrashed")
              ELSE IF ev.pod.err_image_pull
                     THEN EnterTerminate("ErrImagePull")
              ELSE Continue
    /\ UNCHANGED <<pmVars, inVars, shimVars, httpVars, gcVars, k8sVars>>

\* check.kill().await, then terminate(e): the cancellation is sent (it is
\* lost when the checker is gone) and the watcher awaits the checker's handle
KillCheck(e) ==
    /\ sigint' = IF HcDone THEN sigint ELSE TRUE
    /\ wPc' = "p2_kill"
    /\ wErr' = e
    /\ UNCHANGED <<pod, stVars, hcPc, hcOut, latest_error, elapsed>>

\* a Phase 2 that tolerates Restarted as Phase 1 does
Phase2K8sRestartTolerant(ev) ==
    /\ wPc = "p2"
    /\ Deliverable(ev)
    /\ backoff' = IF ev.type \in {"Deleted", "Restarted", "EOF"} THEN backoff
                  ELSE BackoffAfter(ev)
    /\ CASE ev.type = "Error" /\ ~ev.exhausted -> Continue
         [] ev.type = "Error" /\ ev.exhausted  -> KillCheck("KubernetesUnresponsive")
         [] ev.type = "Deleted"   -> KillCheck("PodDeleted")
         [] ev.type = "EOF"       -> KillCheck("UnexpectedCloseOfEventStream")
         [] OTHER                 -> Continue
    /\ UNCHANGED <<pmVars, inVars, shimVars, httpVars, gcVars, k8sVars>>

\* Phase 2, the watch-stream branch of the select
Phase2K8s(ev) ==
    /\ wPc = "p2"
    /\ Deliverable(ev)
    /\ backoff' = IF ev.type \in {"Deleted", "Restarted", "EOF"} THEN backoff
                  ELSE BackoffAfter(ev)
    /\ CASE ev.type = "Error" /\ ~ev.exhausted -> Continue
         [] ev.type = "Error" /\ ev.exhausted  -> KillCheck("KubernetesUnresponsive")
         [] ev.type = "Deleted"   -> KillCheck("PodDeleted")
         [] ev.type = "Restarted" -> KillCheck("PodRebooted")
         [] ev.type = "EOF"       -> KillCheck("UnexpectedCloseOfEventStream")
         [] OTHER                 -> Continue
    /\ UNCHANGED <<pmVars, inVars, shimVars, httpVars, gcVars, k8sVars>>

\* a kill that sends the cancellation and does not await the checker's handle
Phase2KilledUnjoined ==
    /\ wPc = "p2_kill"
    /\ wPc' = "t_send"
    /\ UNCHANGED <<wErr, pod, backoff>>
    /\ UNCHANGED <<pmVars, hcVars, inVars, stVars, shimVars, httpVars,
                   gcVars, k8sVars>>

\* ServerCheck::kill, second half: self.handle.await returns
Phase2Killed ==
    /\ wPc = "p2_kill"
    /\ HcDone
    /\ wPc' = "t_send"
    /\ UNCHANGED <<wErr, pod, backoff>>
    /\ UNCHANGED <<pmVars, hcVars, inVars, stVars, shimVars, httpVars,
                   gcVars, k8sVars>>

\* a health-check branch that takes every resolved outcome for a success
Phase2HealthCheckAnyOk ==
    /\ wPc = "p2"
    /\ HcDone
    /\ wPc' = "ok_send"
    /\ UNCHANGED <<wErr, pod, backoff>>
    /\ UNCHANGED <<pmVars, hcVars, inVars, stVars, shimVars, httpVars,
                   gcVars, k8sVars>>

\* a health-check branch that reports every failure of the checker as a
\* dropped channel
Phase2HealthCheckWrapped ==
    /\ wPc = "p2"
    /\ HcDone
    /\ IF hcOut = "Ok"
         THEN wPc' = "ok_send" /\ UNCHANGED wErr
         ELSE wPc' = "t_send" /\ wErr' = "HealthCheckDroppedItsChannel"
    /\ UNCHANGED <<pod, backoff>>
    /\ UNCHANGED <<pmVars, hcVars, inVars, stVars, shimVars, httpVars,
                   gcVars, k8sVars>>

\* Phase 2, the health-check branch of the select: the oneshot resolved (a
\* value, or the sender dropped), check.join().await returned
Phase2HealthCheck ==
    /\ wPc = "p2"
    /\ HcDone
    /\ CASE hcOut = "none" -> /\ wPc' = "t_send"
                              /\ wErr' = "HealthCheckDroppedItsChannel"
         [] hcOut = "Ok"   -> /\ wPc' = "ok_send"
                              /\ UNCHANGED wErr
         [] OTHER          -> /\ wPc' = "t_send"
                              /\ wErr' = hcOut
    /\ UNCHANGED <<pod, backoff>>
    /\ UNCHANGED <<pmVars, hcVars, inVars, stVars, shimVars, httpVars,
                   gcVars, k8sVars>>

\* Phase 2: self.send_result(Ok(pod.clone())).await; Ok -> Phase 3,
\* Err -> kill_gc, kill_pod, return
Phase2Deliver ==
    /\ wPc = "ok_send"
    /\ send_result(Ok(pod))
    /\ IF InboundRxOpen
         THEN wPc' = "p3" /\ UNCHANGED wErr
         ELSE wPc' = "t_gc" /\ wErr' = "SendChannelClose"
    /\ UNCHANGED <<pod, backoff>>
    /\ UNCHANGED <<pmVars, hcVars, stVars, shimVars, httpVars, gcVars,
                   k8sVars>>

\* a Phase 3 that on Deleted signals the GC and then deletes the pod
Phase3DeletedKillsPod ==
    /\ kill_gc
    /\ wPc' = "t_pod"
    /\ UNCHANGED <<wErr, pod, hcVars>>

\* a Phase 3 that on Deleted goes on into terminate's kill_gc
Phase3DeletedTerminates ==
    /\ kill_gc
    /\ wPc' = "t_gc"
    /\ UNCHANGED <<wErr, pod, hcVars>>

\* a Phase 3 that treats Deleted as Phase 1 does, by terminate(PodDeleted)
Phase3DeletedAsPhase1 == EnterTerminate("PodDeleted")

\* Phase 3, Deleted: self.kill_gc().await; return
Phase3Deleted ==
    /\ kill_gc
    /\ wPc' = "done"
    /\ UNCHANGED <<wErr, pod, hcVars>>

\* a Phase 3 that polls the stream again after it has ended
Phase3EofIgnored(ev) ==
    /\ wPc = "p3"
    /\ Deliverable(ev)
    /\ backoff' = IF ev.type = "Deleted" THEN "none" ELSE BackoffAfter(ev)
    /\ CASE ev.type = "Error" /\ ~ev.exhausted -> Continue
         [] ev.type = "Error" /\ ev.exhausted  -> EnterTerminate("KubernetesUnresponsive")
         [] ev.type = "Deleted"   -> Phase3Deleted
         [] ev.type = "Restarted" -> EnterTerminate("PodRebooted")
         [] OTHER                 -> Continue
    /\ UNCHANGED <<pmVars, inVars, shimVars, httpVars, gcVars, k8sVars>>

\* Phase 3: one iteration of the loop over the watch stream
Phase3(ev) ==
    /\ wPc = "p3"
    /\ Deliverable(ev)
    /\ backoff' = IF ev.type = "Deleted" THEN "none" ELSE BackoffAfter(ev)
    /\ CASE ev.type = "Error" /\ ~ev.exhausted -> Continue
         [] ev.type = "Error" /\ ev.exhausted  -> EnterTerminate("KubernetesUnresponsive")
         [] ev.type = "EOF"       -> EnterTerminate("UnexpectedCloseOfEventStream")
         [] ev.type = "Deleted"   -> Phase3Deleted
         [] ev.type = "Restarted" -> EnterTerminate("PodRebooted")
         [] OTHER                 -> Continue
    /\ UNCHANGED <<pmVars, inVars, shimVars, httpVars, gcVars, k8sVars>>

\* a terminate that begins with kill_gc, delivering no verdict
TerminateSendSkipped ==
    /\ wPc = "t_send"
    /\ wPc' = "t_gc"
    /\ UNCHANGED <<wErr, pod, backoff>>
    /\ UNCHANGED <<pmVars, hcVars, inVars, stVars, shimVars, httpVars, gcVars,
                   k8sVars>>

\* terminate, step 1: let _ = self.send_result(Err(err.into())).await
TerminateSend ==
    /\ wPc = "t_send"
    /\ send_result(Err(wErr))
    /\ wPc' = "t_gc"
    /\ UNCHANGED <<wErr, pod, backoff>>
    /\ UNCHANGED <<pmVars, hcVars, stVars, shimVars, httpVars, gcVars,
                   k8sVars>>

\* terminate, step 2: self.kill_gc().await
TerminateKillGc ==
    /\ wPc = "t_gc"
    /\ kill_gc
    /\ wPc' = "t_pod"
    /\ UNCHANGED <<wErr, pod, backoff>>
    /\ UNCHANGED <<pmVars, hcVars, inVars, shimVars, httpVars, gcVars,
                   k8sVars>>

\* terminate, step 3: self.kill_pod().await, then watch() returns
TerminateKillPod ==
    /\ wPc = "t_pod"
    /\ kill_pod
    /\ wPc' = "done"
    /\ UNCHANGED <<wErr, pod>>
    /\ backoff' = "none"
    /\ UNCHANGED <<pmVars, hcVars, inVars, stVars, shimVars, httpVars,
                   gcVars>>

(* ---------------------------- Health Checker --------------------------- *)
\* the checker task returns: its locals and its cancellation receiver go
CheckReturn ==
    /\ hcPc' = "done"
    /\ sigint' = FALSE
    /\ latest_error' = FALSE
    /\ elapsed' = 0

\* a checker that sends a value and goes on running
EmitAndGoOn(v) ==
    /\ hcOut' = v
    /\ UNCHANGED <<hcPc, sigint, latest_error, elapsed>>

\* output.send(v).unwrap(); return
Emit(v) ==
    /\ hcOut' = v
    /\ CheckReturn

\* select!{wait, sigint} in the backoff sleep: tokio::time::sleep(duration)
\* elapsed, for the duration next_backoff() returned.  The first interval
\* is under a second; the code sleeps a later one in full, whatever is left
\* of the budget
CheckBackoffElapsed ==
    /\ hcPc = "backoff"
    /\ hcPc' = "connect"
    /\ \E duration \in BackoffIntervals :
         /\ ~latest_error => duration = 0
         /\ elapsed' = elapsed + duration
    /\ UNCHANGED <<hcOut, sigint, latest_error>>
    /\ UNCHANGED <<pmVars, wVars, inVars, stVars, shimVars, httpVars,
                   gcVars, k8sVars>>

\* the patience of a connect attempt: MAXIMUM_POLLING_TIME less the elapsed
\* time, checked_sub(..).unwrap_or(0)
patience == IF elapsed <= MAXIMUM_POLLING_TIME
              THEN MAXIMUM_POLLING_TIME - elapsed ELSE 0

\* a checker that listens for the cancellation only while it connects
CheckSigintAtConnect ==
    /\ hcPc = "connect"
    /\ sigint
    /\ CheckReturn
    /\ UNCHANGED hcOut
    /\ UNCHANGED <<pmVars, wVars, inVars, stVars, shimVars, httpVars,
                   gcVars, k8sVars>>

\* either select!: the cancellation signal arrived, the task returns silently
CheckSigint ==
    /\ hcPc \in {"backoff", "connect"}
    /\ sigint
    /\ CheckReturn
    /\ UNCHANGED hcOut
    /\ UNCHANGED <<pmVars, wVars, inVars, stVars, shimVars, httpVars,
                   gcVars, k8sVars>>

\* a loop that goes round without recording the error of the attempt
ErrorNotRecorded == latest_error

\* latest_error = Some(err); continue: whether an error is recorded when the
\* loop goes round
ErrorRecorded == TRUE

\* the None branch of b.next_backoff(): send TooManyFailures with
\* source: latest_error.unwrap(), return.  The unwrap of None panics: the
\* task ends and the sender is dropped without a value
Exhausted(recorded) ==
    IF recorded THEN Emit("TooManyFailures")
                ELSE CheckReturn /\ UNCHANGED hcOut

\* select!{connection, patience, sigint}: the connect attempt completed.
\* Ok -> emit Ok.  Err -> record it, loop: b.next_backoff() is Some (sleep
\* again) or None (emit TooManyFailures)
CheckConnect(connected, exhausted) ==
    /\ hcPc = "connect"
    /\ IF connected
         THEN Emit("Ok")
         ELSE IF exhausted
                THEN Exhausted(ErrorRecorded)
                ELSE /\ elapsed <= MAXIMUM_POLLING_TIME
                     /\ latest_error' = ErrorRecorded
                     /\ hcPc' = "backoff"
                     /\ UNCHANGED <<hcOut, sigint, elapsed>>
    /\ UNCHANGED <<pmVars, wVars, inVars, stVars, shimVars, httpVars,
                   gcVars, k8sVars>>

\* select!{connection, patience, sigint}: the patience timer fired
CheckPatience ==
    /\ hcPc = "connect"
    /\ Emit("NotReady")
    /\ UNCHANGED <<pmVars, wVars, inVars, stVars, shimVars, httpVars,
                   gcVars, k8sVars>>

(* ------------------------ External Handle: shim ------------------------ *)
\* rx1.recv().await returned; the select! is polled, which registers the shim
\* at the barrier and starts its patience timer
ShimRecv ==
    /\ shimPc = "recv"
    /\ inbound # <<>> \/ WatcherDone
    /\ shimResult' = IF inbound # <<>> THEN Head(inbound)
                     ELSE Err("InboundResultChannelDropped")
    /\ inbound' = IF inbound # <<>> THEN Tail(inbound) ELSE inbound
    /\ shimDeadline' = PATIENCE
    /\ arrived' = arrived + 1
    /\ shimPc' = "barrier"
    /\ UNCHANGED <<outbound, verdictLog>>
    /\ UNCHANGED <<pmVars, wVars, hcVars, stVars, httpVars, gcVars,
                   k8sVars>>

\* the shim task returns: its locals go
ShimReturn(how) ==
    /\ shimPc' = how
    /\ shimResult' = NoResult
    /\ shimDeadline' = 0

\* a shim whose patience runs from the moment it is spawned: it may give up
\* before a verdict has arrived
ShimPatienceFromSpawn ==
    /\ shimPc \in {"recv", "barrier"}
    /\ shimDeadline = 0
    /\ ShimReturn("expired")
    /\ UNCHANGED <<arrived, outbound>>
    /\ UNCHANGED <<pmVars, wVars, hcVars, inVars, stVars, httpVars,
                   gcVars, k8sVars>>

\* a shim that leaves the verdict in the outbound channel when its patience
\* runs out
ShimPatienceParksVerdict ==
    /\ shimPc = "barrier"
    /\ shimDeadline = 0
    /\ outbound' = Append(outbound, shimResult)
    /\ ShimReturn("expired")
    /\ UNCHANGED arrived
    /\ UNCHANGED <<pmVars, wVars, hcVars, inVars, stVars, httpVars,
                   gcVars, k8sVars>>

\* select!: the patience timer fired first; the task returns, dropping the
\* verdict, rx1 and tx2
ShimPatience ==
    /\ shimPc = "barrier"
    /\ shimDeadline = 0
    /\ ShimReturn("expired")
    /\ UNCHANGED <<arrived, outbound>>
    /\ UNCHANGED <<pmVars, wVars, hcVars, inVars, stVars, httpVars,
                   gcVars, k8sVars>>

\* a shim that hands over the newest verdict it can find
ShimDeliverLatest ==
    /\ shimPc = "barrier"
    /\ arrived = BARRIER_PARTIES
    /\ Len(outbound) < HANDLE_CAPACITY
    /\ outbound' = Append(outbound, IF inbound # <<>> THEN Head(inbound)
                                    ELSE shimResult)
    /\ ShimReturn("done")
    /\ UNCHANGED arrived
    /\ UNCHANGED <<pmVars, wVars, hcVars, inVars, stVars, httpVars,
                   gcVars, k8sVars>>

\* select!: the barrier released; tx2.send(result).await, the task returns
ShimDeliver ==
    /\ shimPc = "barrier"
    /\ arrived = BARRIER_PARTIES
    /\ Len(outbound) < HANDLE_CAPACITY
    /\ outbound' = Append(outbound, shimResult)
    /\ ShimReturn("done")
    /\ UNCHANGED arrived
    /\ UNCHANGED <<pmVars, wVars, hcVars, inVars, stVars, httpVars,
                   gcVars, k8sVars>>

(* ---------------------------- HTTP requests ---------------------------- *)
\* Result<KeepAliveTicket>
TicketOk(t) == [ok |-> TRUE, ticket |-> t, err |-> "none", id |-> "none"]
RefreshChannelClosed ==
    [ok |-> FALSE, ticket |-> NoTicket, err |-> "RefreshChannelClosed", id |-> "none"]
\* errors.rs: PodManagerNotFound { id }
PodManagerNotFound(id) ==
    [ok |-> FALSE, ticket |-> NoTicket, err |-> "PodManagerNotFound", id |-> id]

\* a lookup that finds no id
getNothing(id) == [ok |-> FALSE, error |-> PodManagerNotFound(id)]

\* PodManager::get(id): the manager inserted for id, or PodManagerNotFound
get(id) ==
    IF id \in cache
      THEN [ok |-> TRUE, manager |-> id]
      ELSE [ok |-> FALSE, error |-> PodManagerNotFound(id)]

\* GarbageCollector::refresh, first half: self.refresh_sender.send(tx).await.
\* The request holds the PodManager mutex; an Err ends it
RefreshSend ==
    IF RefreshRxOpen
      THEN /\ refreshQ' = refreshQ + 1
           /\ reply' = NoTicket
           /\ reqPc' = "ticket"
           /\ late' = WatcherSawEnd
           /\ UNCHANGED ticketLog
      ELSE /\ ticketLog' = Append(ticketLog, RefreshChannelClosed)
           /\ reqPc' = "idle"
           /\ UNCHANGED <<refreshQ, reply, late>>

\* a /wait handler that refreshes whatever wait() returned
wait_refresh_always(result) == RefreshSend

\* the /wait handler after wait(): manager.wait().await? returns the error
\* of wait() at once, Ok goes on to manager.refresh()
wait_then_refresh(result) ==
    IF result.ok
      THEN RefreshSend
      ELSE reqPc' = "idle" /\ UNCHANGED <<refreshQ, reply, ticketLog, late>>

\* a handle that is shared without a mutex: lock() never waits
lock_unguarded == TRUE

\* lock.lock().await returns: tokio's Mutex gives the guard to one caller
\* at a time, the others stay suspended in lock()
lock_await == lock = "free"

\* the mutex is released when the request ends
LockAfter(holder) == IF reqPc' = "idle" THEN "free" ELSE holder

\* GET /wait: PodManager::get, lock, PodManagerUpperHandle::wait up to the
\* barrier; a memoized result returns at once (Ok goes on to refresh)
WaitBegin ==
    /\ get(PodId).ok
    /\ lock_await
    /\ Len(waitLog) < MaxWaits
    /\ IF phantom = NoResult
         THEN /\ arrived' = arrived + 1
              /\ reqPc' = "barrier"
              /\ UNCHANGED <<waitLog, refreshQ, reply, ticketLog, late>>
         ELSE /\ waitLog' = Append(waitLog, phantom)
              /\ UNCHANGED arrived
              /\ wait_then_refresh(phantom)
    /\ lock' = LockAfter("wait")
    /\ UNCHANGED <<phantom, refreshCalls>>
    /\ UNCHANGED <<shimPc, shimResult, shimDeadline, outbound>>
    /\ UNCHANGED <<pmVars, wVars, hcVars, inVars, stVars, gcVars, k8sVars>>

\* wait(): self.barrier.wait().await returned
WaitBarrier ==
    /\ reqPc = "barrier"
    /\ arrived = BARRIER_PARTIES
    /\ reqPc' = "recv"
    /\ UNCHANGED <<lock, phantom, waitLog, refreshCalls, refreshQ, reply, ticketLog,
                   late>>
    /\ UNCHANGED <<pmVars, wVars, hcVars, inVars, stVars, shimVars,
                   gcVars, k8sVars>>

\* a wait() that caches the first result as it is
MemoVerbatim(result) == result

\* the value the first wait() caches for a result
Memo(result) == IF result.ok THEN Ok(result.pod) ELSE Err("PhantomError")

\* wait(): self.result.recv().await returned; memoize and return.  In the
\* /wait handler Ok goes on to manager.refresh(), Err ends the request
WaitRecv ==
    /\ reqPc = "recv"
    /\ outbound # <<>> \/ ShimDone
    /\ LET result == IF outbound # <<>> THEN Head(outbound)
                     ELSE Err("InboundResultChannelDropped")
       IN /\ phantom' = Memo(result)
          /\ waitLog' = Append(waitLog, result)
          /\ wait_then_refresh(result)
    /\ outbound' = IF outbound # <<>> THEN Tail(outbound) ELSE outbound
    /\ lock' = LockAfter("wait")
    /\ UNCHANGED refreshCalls
    /\ UNCHANGED <<shimPc, shimResult, shimDeadline, arrived>>
    /\ UNCHANGED <<pmVars, wVars, hcVars, inVars, stVars, gcVars, k8sVars>>

\* POST /refresh: PodManager::get, lock, GarbageCollector::refresh
RefreshBegin(id) ==
    /\ refreshCalls < MaxRefreshes
    /\ refreshCalls' = refreshCalls + 1
    /\ IF get(id).ok
         THEN /\ get(id).manager = PodId
              /\ lock_await
              /\ RefreshSend
              /\ lock' = LockAfter("refresh")
         ELSE /\ ticketLog' = Append(ticketLog, get(id).error)
              /\ UNCHANGED <<lock, reqPc, refreshQ, reply, late>>
    /\ UNCHANGED <<phantom, waitLog>>
    /\ UNCHANGED <<pmVars, wVars, hcVars, inVars, stVars, shimVars,
                   gcVars, k8sVars>>

\* a refresh whose rx.await resolves only with a ticket
RefreshReplyOnlyOnAnswer ==
    /\ reqPc = "ticket"
    /\ reply # NoTicket
    /\ ticketLog' = Append(ticketLog, TicketOk(reply))
    /\ reply' = NoTicket
    /\ late' = FALSE
    /\ reqPc' = "idle"
    /\ lock' = "free"
    /\ UNCHANGED <<phantom, waitLog, refreshCalls, refreshQ>>
    /\ UNCHANGED <<pmVars, wVars, hcVars, inVars, stVars, shimVars,
                   gcVars, k8sVars>>

\* GarbageCollector::refresh, second half: rx.await resolved with the ticket,
\* or with Err because the GC dropped the request
RefreshReply ==
    /\ reqPc = "ticket"
    /\ reply # NoTicket \/ GcDone
    /\ ticketLog' = Append(ticketLog, IF reply # NoTicket THEN TicketOk(reply)
                                      ELSE RefreshChannelClosed)
    /\ reply' = NoTicket
    /\ late' = FALSE
    /\ reqPc' = "idle"
    /\ lock' = "free"
    /\ UNCHANGED <<phantom, waitLog, refreshCalls, refreshQ>>
    /\ UNCHANGED <<pmVars, wVars, hcVars, inVars, stVars, shimVars,
                   gcVars, k8sVars>>

\* what Kubernetes holds of the pod, and who has asked to delete it
K8s == [podDeleted |-> podDeleted, deleteBy |-> deleteBy]

\* what the API server in state k answers to a delete of id: 200 while the
\* pod is there (also while it terminates), 404 when it is gone or never was
Upstream(k, id) ==
    IF id # PodId THEN {"404"}
    ELSE IF k.podDeleted THEN {"200", "404"} ELSE {"200"}

\* a k8s::delete that hands every error of the API server on
delete_unmapped(code) == [ok |-> code = "200", left |-> code = "200"]

\* k8s::delete: Left(pod) for a delete that started, Right(status) for a 404
delete(code) == [ok |-> code \in {"200", "404"}, left |-> code = "200"]

\* Kubernetes after the API server in state k answered code to the client's
\* delete of id
Deleting(k, id, code) ==
    [podDeleted |-> k.podDeleted \/ (id = PodId /\ code = "200"),
     deleteBy   |-> IF id = PodId /\ delete(code).ok
                      THEN k.deleteBy \cup {"client"} ELSE k.deleteBy]

\* DELETE /delete: k8s::delete(id)?, then Ok(()).  The client has the id
\* from deploy
Delete(id) ==
    /\ deployPc # "idle"
    /\ \E code \in Upstream(K8s, id) :
         /\ podDeleted' = Deleting(K8s, id, code).podDeleted
         /\ deleteBy' = Deleting(K8s, id, code).deleteBy
    /\ UNCHANGED <<pmVars, wVars, hcVars, inVars, stVars, shimVars,
                   httpVars, gcVars>>

(* -------------------------- Garbage Collector -------------------------- *)
\* the GC task ends (return or panic): both receivers are dropped with
\* whatever they buffer
GcExit(how) ==
    /\ gcPc' = how
    /\ status' = <<>>
    /\ refreshQ' = 0
    /\ keep_alive' = NoTicket

\* client.delete(&pod, ..).await.unwrap(); return (the task ends whether or
\* not the unwrap panics)
gc_delete ==
    /\ podDeleted' = TRUE
    /\ deleteBy' = deleteBy \cup {"gc"}
    /\ GcExit("done")

\* a deadline that is taken to be the moment the ticket was issued
ExpiredSinceIssue(ticket) == ticket.execution_instant <= ttl

\* the ticket's deadline has been reached (tokio::time::sleep_until)
Expired(ticket) == ticket.execution_instant = 0

\* armed: self.status.recv().await returned
GcArmed ==
    /\ gcPc = "armed"
    /\ status # <<>> \/ WatcherDone
    /\ IF status # <<>> /\ Head(status).sig = "Running"
         THEN /\ status' = Tail(status)
              /\ keep_alive' = KeepAliveTicket(PodId, ttl)
              /\ gcPc' = "patch"
              /\ UNCHANGED refreshQ
         ELSE GcExit("done")
    /\ UNCHANGED <<lock, reqPc, phantom, waitLog, refreshCalls, reply, ticketLog,
                   late>>
    /\ UNCHANGED sentLog
    /\ UNCHANGED <<pmVars, wVars, hcVars, inVars, shimVars, k8sVars>>

\* client.patch(..).await.unwrap(): the label patch returned
GcPatch(ok) ==
    /\ gcPc = "patch"
    /\ IF ok THEN gcPc' = "counting" /\ UNCHANGED <<status, refreshQ, keep_alive>>
             ELSE GcExit("panicked")
    /\ UNCHANGED <<lock, reqPc, phantom, waitLog, refreshCalls, reply, ticketLog,
                   late>>
    /\ UNCHANGED sentLog
    /\ UNCHANGED <<pmVars, wVars, hcVars, inVars, shimVars, k8sVars>>

\* a GC that answers a refresh request before it has received Running
GcRefreshWhileArmed ==
    /\ gcPc \in {"armed", "counting"}
    /\ refreshQ > 0
    /\ refreshQ' = refreshQ - 1
    /\ keep_alive' = KeepAliveTicket(PodId, ttl)
    /\ reply' = IF reqPc = "ticket" THEN keep_alive' ELSE reply
    /\ gcPc' = "patch"
    /\ UNCHANGED <<lock, reqPc, phantom, waitLog, refreshCalls, ticketLog, late>>
    /\ UNCHANGED <<pmVars, wVars, hcVars, inVars, stVars, shimVars,
                   k8sVars>>

\* counting, select!: a refresh request arrived; new ticket, reply, re-patch.
\* refresh.send(ticket) hands the ticket to a requester that still awaits
\* it; with the requester gone the send is Err, which is logged
GcRefresh ==
    /\ gcPc = "counting"
    /\ refreshQ > 0
    /\ refreshQ' = refreshQ - 1
    /\ keep_alive' = KeepAliveTicket(PodId, ttl)
    /\ reply' = IF reqPc = "ticket" THEN keep_alive' ELSE reply
    /\ gcPc' = "patch"
    /\ UNCHANGED <<lock, reqPc, phantom, waitLog, refreshCalls, ticketLog, late>>
    /\ UNCHANGED <<pmVars, wVars, hcVars, inVars, stVars, shimVars,
                   k8sVars>>

\* counting, select!: the ticket's deadline fired; delete the pod and return
GcTimeout ==
    /\ gcPc = "counting"
    /\ Expired(keep_alive)
    /\ gc_delete
    /\ UNCHANGED <<lock, reqPc, phantom, waitLog, refreshCalls, reply, ticketLog,
                   late>>
    /\ UNCHANGED sentLog
    /\ UNCHANGED <<pmVars, wVars, hcVars, inVars, shimVars>>

\* a GC that starts its countdown again on every Running it receives
GcPodEventRearms ==
    /\ gcPc = "counting"
    /\ status # <<>> \/ WatcherDone
    /\ IF status = <<>>
         THEN gc_delete
         ELSE /\ UNCHANGED k8sVars
              /\ IF Head(status).sig = "Running"
                   THEN /\ status' = Tail(status)
                        /\ keep_alive' = KeepAliveTicket(PodId, ttl)
                        /\ UNCHANGED <<gcPc, refreshQ>>
                   ELSE GcExit("done")
    /\ UNCHANGED <<lock, reqPc, phantom, waitLog, refreshCalls, reply, ticketLog,
                   late>>
    /\ UNCHANGED sentLog
    /\ UNCHANGED <<pmVars, wVars, hcVars, inVars, shimVars>>

\* counting, select!: self.status.recv() returned (a signal, or None when
\* the watcher dropped the sender and the buffer is empty)
GcPodEvent ==
    /\ gcPc = "counting"
    /\ status # <<>> \/ WatcherDone
    /\ IF status = <<>>
         THEN gc_delete
         ELSE /\ UNCHANGED k8sVars
              /\ IF Head(status).sig = "Running"
                   THEN /\ status' = Tail(status)
                        /\ UNCHANGED <<gcPc, keep_alive, refreshQ>>
                   ELSE GcExit("done")
    /\ UNCHANGED <<lock, reqPc, phantom, waitLog, refreshCalls, reply, ticketLog,
                   late>>
    /\ UNCHANGED sentLog
    /\ UNCHANGED <<pmVars, wVars, hcVars, inVars, shimVars>>

(* --------------------------- specification ----------------------------- *)
Next ==
    \/ \E d \in TickSizes : Tick(d)
    \/ \E t \in 1..MaxTtl : NewPodManagerSpawn(t)
    \/ NewPodManagerInsert
    \/ Reaper
    \/ \E ev \in WatchEvents : Phase1(ev)
    \/ \E ev \in WatchEvents : Phase2K8s(ev)
    \/ Phase2Killed
    \/ Phase2HealthCheck
    \/ Phase2Deliver
    \/ \E ev \in WatchEvents : Phase3(ev)
    \/ TerminateSend
    \/ TerminateKillGc
    \/ TerminateKillPod
    \/ CheckBackoffElapsed
    \/ CheckSigint
    \/ \E c, x \in BOOLEAN : CheckConnect(c, x)
    \/ CheckPatience
    \/ ShimRecv
    \/ ShimPatience
    \/ ShimDeliver
    \/ WaitBegin
    \/ WaitBarrier
    \/ WaitRecv
    \/ \E id \in Ids : RefreshBegin(id)
    \/ RefreshReply
    \/ \E id \in Ids : Delete(id)
    \/ GcArmed
    \/ \E ok \in BOOLEAN : GcPatch(ok)
    \/ GcRefresh
    \/ GcTimeout
    \/ GcPodEvent

Spec == Init /\ [][Next]_vars

(* ------------------- one sequential client, fair tasks ------------------ *)
\* the client's one GET /wait, sent after deploy has returned
SeqWait == waitLog = <<>> /\ WaitBegin

\* the client's POST /refresh calls, sent after /wait has returned
SeqRefresh == waitLog # <<>> /\ "client" \notin deleteBy /\ RefreshBegin(PodId)

\* the client's DELETE /delete, sent after the earlier requests returned
SeqDelete == waitLog # <<>> /\ lock = "free" /\ Delete(PodId)

\* the steps of the Event Watcher task that need no event from Kubernetes
WatcherStep ==
    \/ Phase2Killed
    \/ Phase2HealthCheck
    \/ Phase2Deliver
    \/ TerminateSend
    \/ TerminateKillGc
    \/ TerminateKillPod

\* the steps of the Health Checker task
CheckStep ==
    \/ CheckBackoffElapsed
    \/ CheckSigint
    \/ \E c, x \in BOOLEAN : CheckConnect(c, x)
    \/ CheckPatience

\* the steps of the shim task
ShimStep == ShimRecv \/ ShimPatience \/ ShimDeliver

\* the steps of the Garbage Collector task
GcStep ==
    \/ GcArmed
    \/ \E ok \in BOOLEAN : GcPatch(ok)
    \/ GcRefresh
    \/ GcTimeout
    \/ GcPodEvent

\* the steps of a request inside its handler
RequestStep == WaitBarrier \/ WaitRecv \/ RefreshReply

\* the watch stream delivers Deleted for a deleted pod
StreamDeleted ==
    \E ev \in WatchEvents :
        ev.type = "Deleted" /\ (Phase1(ev) \/ Phase2K8s(ev) \/ Phase3(ev))

SeqNext ==
    \/ \E d \in TickSizes : Tick(d)
    \/ \E t \in 1..MaxTtl : NewPodManagerSpawn(t)
    \/ NewPodManagerInsert
    \/ Reaper
    \/ \E ev \in WatchEvents : Phase1(ev)
    \/ \E ev \in WatchEvents : Phase2K8s(ev)
    \/ Phase2Killed
    \/ Phase2HealthCheck
    \/ Phase2Deliver
    \/ \E ev \in WatchEvents : Phase3(ev)
    \/ TerminateSend
    \/ TerminateKillGc
    \/ TerminateKillPod
    \/ CheckBackoffElapsed
    \/ CheckSigint
    \/ \E c, x \in BOOLEAN : CheckConnect(c, x)
    \/ CheckPatience
    \/ ShimRecv
    \/ ShimPatience
    \/ ShimDeliver
    \/ SeqWait
    \/ WaitBarrier
    \/ WaitRecv
    \/ SeqRefresh
    \/ RefreshReply
    \/ SeqDelete
    \/ GcArmed
    \/ \E ok \in BOOLEAN : GcPatch(ok)
    \/ GcRefresh
    \/ GcTimeout
    \/ GcPodEvent

\* every task that can run does run, the deploy handler completes, and
\* Kubernetes reports Deleted on the stream after a delete
SeqFairness ==
    /\ WF_vars(NewPodManagerInsert)
    /\ WF_vars(Reaper)
    /\ WF_vars(WatcherStep)
    /\ WF_vars(CheckStep)
    /\ WF_vars(ShimStep)
    /\ WF_vars(GcStep)
    /\ WF_vars(RequestStep)
    /\ WF_vars(StreamDeleted)

SeqSpec == Init /\ [][SeqNext]_vars /\ SeqFairness

(* --------------------- no client after deploy, fair -------------------- *)
\* the client deploys and is never heard of again: the tasks run, the clock
\* runs, no request arrives
AbandonNext ==
    \/ \E d \in TickSizes : Tick(d)
    \/ \E t \in 1..MaxTtl : NewPodManagerSpawn(t)
    \/ NewPodManagerInsert
    \/ Reaper
    \/ \E ev \in WatchEvents : Phase1(ev)
    \/ \E ev \in WatchEvents : Phase2K8s(ev)
    \/ Phase2Killed
    \/ Phase2HealthCheck
    \/ Phase2Deliver
    \/ \E ev \in WatchEvents : Phase3(ev)
    \/ TerminateSend
    \/ TerminateKillGc
    \/ TerminateKillPod
    \/ CheckBackoffElapsed
    \/ CheckSigint
    \/ \E c, x \in BOOLEAN : CheckConnect(c, x)
    \/ CheckPatience
    \/ ShimRecv
    \/ ShimPatience
    \/ GcArmed
    \/ \E ok \in BOOLEAN : GcPatch(ok)
    \/ GcTimeout
    \/ GcPodEvent

\* every task that can run does run, and a timer that is pending sees its
\* time pass
AbandonFairness ==
    /\ SeqFairness
    /\ WF_vars(Tick(1))
    /\ WF_vars(Tick(PATIENCE))

AbandonSpec == Init /\ [][AbandonNext]_vars /\ AbandonFairness

(* ------------------ one client, fair, cancellation seen ----------------- *)
\* both select! of the checker poll the cancellation receiver, and a signal
\* that was sent is ready when it is polled: a checker that stays cancelled
\* takes the signal
KillFairness == SeqFairness /\ WF_vars(CheckSigint)

KillSpec == Init /\ [][SeqNext]_vars /\ KillFairness

(* ------------- refreshes sent before the pod is reported ---------------- *)
\* POST /refresh arrives while the GC still waits for its first signal
ArmedRefresh == gcPc = "armed" /\ RefreshBegin(PodId)

\* the tasks of a Pod Manager and a client that only refreshes, and only
\* while the GC is armed
ArmedNext ==
    \/ \E d \in TickSizes : Tick(d)
    \/ \E t \in 1..MaxTtl : NewPodManagerSpawn(t)
    \/ NewPodManagerInsert
    \/ Reaper
    \/ \E ev \in WatchEvents : Phase1(ev)
    \/ \E ev \in WatchEvents : Phase2K8s(ev)
    \/ Phase2Killed
    \/ Phase2HealthCheck
    \/ Phase2Deliver
    \/ \E ev \in WatchEvents : Phase3(ev)
    \/ TerminateSend
    \/ TerminateKillGc
    \/ TerminateKillPod
    \/ CheckBackoffElapsed
    \/ CheckSigint
    \/ \E c, x \in BOOLEAN : CheckConnect(c, x)
    \/ CheckPatience
    \/ ShimRecv
    \/ ShimPatience
    \/ ArmedRefresh
    \/ RefreshReply
    \/ GcArmed
    \/ \E ok \in BOOLEAN : GcPatch(ok)
    \/ GcRefresh
    \/ GcTimeout
    \/ GcPodEvent

ArmedSpec == Init /\ [][ArmedNext]_vars /\ AbandonFairness

(* ------------------- a later deploy with the same id -------------------- *)
\* new_podmanager is called again with the id of a Pod Manager whose reaper
\* has not run yet (the pod of that name is gone, so the create of the
\* deploy went through): the later manager's tasks and reaper are spawned
LaterSpawn ==
    /\ later = "none"
    /\ deployPc = "inserted" /\ reaperPc = "join"
    /\ podDeleted
    /\ later' = "spawned"
    /\ UNCHANGED <<deployPc, ttl, cache, reaperPc, removals, owner>>
    /\ UNCHANGED <<wVars, hcVars, inVars, stVars, shimVars, httpVars,
                   gcVars, k8sVars>>

\* the later new_podmanager: insert(pod, manager) replaces what the id
\* was mapped to
LaterInsert ==
    /\ later = "spawned"
    /\ later' = "running"
    /\ cache' = cache \cup {PodId}
    /\ owner' = "second"
    /\ UNCHANGED <<deployPc, ttl, reaperPc, removals>>
    /\ UNCHANGED <<wVars, hcVars, inVars, stVars, shimVars, httpVars,
                   gcVars, k8sVars>>

\* the three daemons of the later Pod Manager have all ended
LaterJoined ==
    /\ later = "running"
    /\ later' = "joined"
    /\ UNCHANGED <<deployPc, ttl, cache, reaperPc, removals, owner>>
    /\ UNCHANGED <<wVars, hcVars, inVars, stVars, shimVars, httpVars,
                   gcVars, k8sVars>>

\* the reaper of the later Pod Manager: managers.remove(&pod)
LaterReaper ==
    /\ later = "joined"
    /\ later' = "reaped"
    /\ cache' = cache \ {PodId}
    /\ owner' = "none"
    /\ UNCHANGED <<deployPc, ttl, reaperPc, removals>>
    /\ UNCHANGED <<wVars, hcVars, inVars, stVars, shimVars, httpVars,
                   gcVars, k8sVars>>

\* the tasks of a Pod Manager, and a second Pod Manager created with its id
RegistryNext ==
    \/ \E d \in TickSizes : Tick(d)
    \/ \E t \in 1..MaxTtl : NewPodManagerSpawn(t)
    \/ NewPodManagerInsert
    \/ Reaper
    \/ \E ev \in WatchEvents : Phase1(ev)
    \/ \E ev \in WatchEvents : Phase2K8s(ev)
    \/ Phase2Killed
    \/ Phase2HealthCheck
    \/ Phase2Deliver
    \/ \E ev \in WatchEvents : Phase3(ev)
    \/ TerminateSend
    \/ TerminateKillGc
    \/ TerminateKillPod
    \/ CheckBackoffElapsed
    \/ CheckSigint
    \/ \E c, x \in BOOLEAN : CheckConnect(c, x)
    \/ CheckPatience
    \/ ShimRecv
    \/ ShimPatience
    \/ GcArmed
    \/ \E ok \in BOOLEAN : GcPatch(ok)
    \/ GcTimeout
    \/ GcPodEvent
    \/ LaterSpawn
    \/ LaterInsert
    \/ LaterJoined
    \/ LaterReaper

RegistrySpec == Init /\ [][RegistryNext]_vars

(* ---------------- the Garbage Collector and any producer ---------------- *)
\* GcStatus: what the holder of the status sender can send
GcStatuses == {Running(PodDefault), Terminated}

\* the holder of gc_status_signal sends s, whatever it sent before
StatusSent(s) ==
    /\ wPc = "p1"
    /\ Len(sentLog) < MaxSignals
    /\ SendStatus(s)
    /\ UNCHANGED <<pmVars, wVars, hcVars, inVars, shimVars, httpVars, gcVars,
                   k8sVars>>

\* the holder of gc_status_signal drops it, whatever it sent before
StatusDropped ==
    /\ wPc = "p1"
    /\ wPc' = "done"
    /\ backoff' = "none"
    /\ UNCHANGED <<wErr, pod>>
    /\ UNCHANGED <<pmVars, hcVars, inVars, stVars, shimVars, httpVars, gcVars,
                   k8sVars>>

\* the caller of GarbageCollector::refresh is dropped while it awaits the
\* reply: its oneshot receiver goes with it, the request stays queued and
\* the call returns nothing
RefreshAbandoned ==
    /\ reqPc = "ticket"
    /\ reply = NoTicket
    /\ reqPc' = "idle"
    /\ lock' = "free"
    /\ late' = FALSE
    /\ UNCHANGED <<phantom, waitLog, refreshCalls, refreshQ, reply, ticketLog>>
    /\ UNCHANGED <<pmVars, wVars, hcVars, inVars, stVars, shimVars, gcVars,
                   k8sVars>>

\* the GC task with the tasks that hold its senders left open: the status
\* sender sends any signals in any order and is dropped at any time, the
\* requester of a refresh may go away before its reply
GcNext ==
    \/ Tick(1)
    \/ \E t \in 1..MaxTtl : NewPodManagerSpawn(t)
    \/ NewPodManagerInsert
    \/ \E s \in GcStatuses : StatusSent(s)
    \/ StatusDropped
    \/ RefreshBegin(PodId)
    \/ RefreshReply
    \/ RefreshAbandoned
    \/ GcArmed
    \/ \E ok \in BOOLEAN : GcPatch(ok)
    \/ GcRefresh
    \/ GcTimeout
    \/ GcPodEvent

GcSpec == Init /\ [][GcNext]_vars

(* ------------------- a Health Checker that may panic -------------------- *)
\* the checker task panics at one of its suspension points (inside the
\* connect of the gRPC client, say): the task ends and its result sender is
\* dropped without a value
CheckPanicked ==
    /\ hcPc \in {"backoff", "connect"}
    /\ CheckReturn
    /\ UNCHANGED hcOut
    /\ UNCHANGED <<pmVars, wVars, inVars, stVars, shimVars, httpVars,
                   gcVars, k8sVars>>

\* a deployed Pod Manager and its /wait consumer, with a checker task that
\* may end without a result
CheckerNext ==
    \/ \E d \in TickSizes : Tick(d)
    \/ \E t \in 1..MaxTtl : NewPodManagerSpawn(t)
    \/ NewPodManagerInsert
    \/ Reaper
    \/ \E ev \in WatchEvents : Phase1(ev)
    \/ \E ev \in WatchEvents : Phase2K8s(ev)
    \/ Phase2Killed
    \/ Phase2HealthCheck
    \/ Phase2Deliver
    \/ \E ev \in WatchEvents : Phase3(ev)
    \/ TerminateSend
    \/ TerminateKillGc
    \/ TerminateKillPod
    \/ CheckBackoffElapsed
    \/ CheckSigint
    \/ \E c, x \in BOOLEAN : CheckConnect(c, x)
    \/ CheckPatience
    \/ CheckPanicked
    \/ ShimRecv
    \/ ShimPatience
    \/ ShimDeliver
    \/ WaitBegin
    \/ WaitBarrier
    \/ WaitRecv
    \/ RefreshReply
    \/ GcArmed
    \/ \E ok \in BOOLEAN : GcPatch(ok)
    \/ GcRefresh
    \/ GcTimeout
    \/ GcPodEvent

CheckerSpec == Init /\ [][CheckerNext]_vars

(* ------------------------------ claims --------------------------------- *)
\* some wait() has returned Ok(pod)
WaitedOk == \E i \in DOMAIN waitLog : waitLog[i].ok

C3_WaitOkOnlyWhenHealthy ==
    /\ waitLog # <<>> => verdictLog # <<>>
    /\ \A i \in DOMAIN waitLog :
         waitLog[i].ok =>
           /\ pod.running /\ waitLog[i].pod = pod
           /\ sentLog # <<>> /\ sentLog[1] = Running(pod)
           /\ hcPc = "done" /\ hcOut = "Ok"
           /\ wPc \in {"p3", "t_send", "t_gc", "t_pod", "done"}

\* C3 witness: a wait() has returned Ok while the watcher is in Phase 3
C3_Witness == WaitedOk /\ wPc = "p3"

\* C4: once the first wait() has returned, every later wait() returns in the
\* step that starts it (no barrier, no channel receive), with the cached pod
\* when the first returned Ok(pod) and with PhantomError when it returned an
\* error, whatever the watcher sends afterwards.
C4_WaitMemoized ==
    /\ [](\A i \in DOMAIN waitLog :
            i > 1 => waitLog[i] = IF waitLog[1].ok THEN Ok(waitLog[1].pod)
                                  ELSE Err("PhantomError"))
    /\ [][waitLog # <<>> => /\ reqPc' \notin {"barrier", "recv"}
                            /\ arrived' = arrived /\ outbound' = outbound]_vars

\* C4 witness: a second wait() returned PhantomError after a first error
C4_Witness ==
    /\ Len(waitLog) >= 2
    /\ ~waitLog[1].ok /\ waitLog[1].err # "PhantomError"
    /\ waitLog[2] = Err("PhantomError")

\* C2: after deploy, wait, k refreshes and delete by one sequential client,
\* with fair scheduling and Deleted reported on the watch stream, the watcher,
\* the GC and the shim all exit and the id is eventually absent from the
\* registry for good.
C2_DeleteLeadsToEmptyRegistry ==
    ("client" \in deleteBy)
        ~> [](WatcherDone /\ GcDone /\ ShimDone /\ PodId \notin cache)

\* C2, as far as it holds: the same, for the runs in which the reaper did
\* not run before new_podmanager's insert.
C2_EmptyUnlessReapedBeforeInsert ==
    \/ <>(reaperPc = "done" /\ deployPc = "spawned")
    \/ ("client" \in deleteBy)
         ~> [](WatcherDone /\ GcDone /\ ShimDone /\ reaperPc = "done"
               /\ PodId \notin cache)

\* the number of signals of one kind the watcher has sent
Count(sig) == Cardinality({i \in DOMAIN sentLog : sentLog[i].sig = sig})

C6_ErrorExitDeletesPod ==
    /\ WatcherDone /\ wErr # "none" => "watcher" \in deleteBy
    /\ wErr # "none" /\ "watcher" \notin deleteBy
         => wPc \in {"p2_kill", "t_send", "t_gc", "t_pod"}

\* C6 witness: the watcher exited after a failed health check in Phase 2
C6_Witness ==
    WatcherDone /\ wErr = "TooManyFailures" /\ "watcher" \in deleteBy

\* C7 as stated: once wait() has returned Ok(pod), the watcher issues no pod
\* delete.
C7_NoWatcherDeleteAfterOk ==
    [][WaitedOk => ("watcher" \in deleteBy' => "watcher" \in deleteBy)]_vars

\* C7, amended: once wait() has returned Ok(pod), the watcher issues a pod
\* delete only from terminate, on a terminal condition of Phase 3 (Restarted,
\* end of the stream, Kubernetes unresponsive); on Deleted it issues none.
C7_WatcherDeleteAfterOkOnlyInTerminate ==
    /\ [][WaitedOk /\ "watcher" \notin deleteBy /\ "watcher" \in deleteBy'
            => /\ wPc = "t_pod"
               /\ wErr \in {"PodRebooted", "UnexpectedCloseOfEventStream",
                            "KubernetesUnresponsive"}]_vars
    /\ [](WatcherDone /\ wErr = "none" => "watcher" \notin deleteBy)

\* C7 witness: wait() returned Ok, then the pod restarted and the watcher
\* deleted it
C7_Witness ==
    WaitedOk /\ wErr = "PodRebooted" /\ "watcher" \in deleteBy /\ WatcherDone

\* C8: the watcher sends at most one Running and at most one Terminated,
\* nothing after Terminated, and drops the sender only after Terminated.
C8_StatusSignalsOnce ==
    /\ Count("Running") <= 1
    /\ Count("Terminated") <= 1
    /\ \A i \in DOMAIN sentLog : sentLog[i] = Terminated => i = Len(sentLog)
    /\ WatcherDone => sentLog # <<>> /\ sentLog[Len(sentLog)] = Terminated
    /\ Count("Terminated") = 1 => wPc \in {"t_pod", "done"}

\* C8 witness: Running, then Terminated, then the watcher exited
C8_Witness == WatcherDone /\ sentLog = <<Running(pod), Terminated>>

\* C9 as stated: Terminated is sent only after Running was sent.
C9_RunningBeforeTerminated ==
    Count("Terminated") > 0 => sentLog[1].sig = "Running"

\* C9, amended: Running is never sent after Terminated, and Terminated is
\* sent without an earlier Running only when the watcher terminates in
\* Phase 1, before it saw a running pod.
C9_NoRunningAfterTerminated ==
    /\ \A i, j \in DOMAIN sentLog :
         sentLog[i] = Terminated /\ sentLog[j].sig = "Running" => j < i
    /\ sentLog # <<>> /\ sentLog[1] = Terminated
         => /\ ~pod.running /\ hcPc = "none"
            /\ wErr \in {"KubernetesUnresponsive", "UnexpectedCloseOfEventStream",
                         "PodDeleted", "PodCrashed", "ErrImagePull"}

\* C9 witness: Terminated alone was sent and the armed GC exited on it
C9_Witness == sentLog = <<Terminated>> /\ gcPc = "done" /\ "gc" \notin deleteBy

\* the tickets the GC has issued to refresh requests
IssuedTickets ==
    {ticketLog[i].ticket : i \in {n \in DOMAIN ticketLog : ticketLog[n].ok}}
        \cup (IF reply # NoTicket THEN {reply} ELSE {})

\* C10: the GC issues a pod delete only while counting, and only when the
\* deadline of its current ticket (the latest it issued) has been reached or
\* the status channel was closed without Terminated.
C10_GcDeletesOnlyAtDeadline ==
    [][("gc" \notin deleteBy /\ "gc" \in deleteBy')
          => /\ gcPc = "counting"
             /\ Count("Running") = 1
             /\ \/ /\ keep_alive.execution_instant = 0
                   /\ \A t \in IssuedTickets : t.execution_instant = 0
                \/ status = <<>> /\ WatcherDone]_vars

\* C10 witness: the GC deleted the pod at the deadline of a refreshed ticket
C10_Witness ==
    /\ "gc" \in deleteBy
    /\ \E i \in DOMAIN ticketLog :
         ticketLog[i].ok /\ ticketLog[i].ticket.ticket = PodId

\* C11: when the GC processes a refresh its deadline becomes ttl seconds from
\* that moment, whatever the previous deadline was and however many refreshes
\* came before; the reply carries that deadline and the pod id, and the ticket
\* the caller gets is that reply.
C11_RefreshResetsDeadline ==
    /\ [][(gcPc = "counting" /\ gcPc' = "patch")
            => /\ keep_alive' = [ticket |-> PodId, execution_date |-> ttl,
                                 execution_instant |-> ttl]
               /\ reply' = keep_alive']_vars
    /\ [](reply # NoTicket /\ gcPc \in {"patch", "counting"} => reply = keep_alive)
    /\ [][Len(ticketLog') = Len(ticketLog) + 1
            => LET r == ticketLog'[Len(ticketLog')]
               IN r.ok => r.ticket = reply /\ r.ticket.ticket = PodId]_vars

\* C11 witness: a third refresh was processed while the previous deadline
\* still lay ahead, and its ticket is with the caller
C11_Witness ==
    /\ Len(ticketLog) = 3
    /\ \A i \in DOMAIN ticketLog : ticketLog[i].ok
    /\ gcPc = "counting" /\ ttl > 0
    /\ keep_alive.execution_instant = ttl
    /\ ticketLog[3].ticket = keep_alive

\* C12: a refresh that starts after the watcher observed Deleted (or
\* Restarted in Phase 3) is never answered with a fresh ticket.
C12_NoTicketAfterDeleted == late => reply = NoTicket

\* C13: once the GC task has exited, by return or by panic, a refresh()
\* returns RefreshChannelClosed in the step that starts it; a refresh that
\* was queued and not answered when the GC exited is dropped with the
\* receiver, can return, and returns RefreshChannelClosed.  (A request whose
\* get failed never calls refresh(); its result is PodManagerNotFound.)
C13_RefreshOnDeadGc ==
    /\ [](GcDone => refreshQ = 0)
    /\ [](reqPc = "ticket" /\ GcDone => ENABLED RefreshReply)
    /\ [][GcDone /\ reply = NoTicket /\ Len(ticketLog') = Len(ticketLog) + 1
            => LET r == ticketLog'[Len(ticketLog')]
               IN r.err # "PodManagerNotFound" => r.err = "RefreshChannelClosed"]_vars
    /\ [][GcDone /\ reqPc # "ticket" => reqPc' # "ticket"]_vars

\* C13 witness: the GC exited while a refresh was queued and not answered
C13_Witness == reqPc = "ticket" /\ GcDone /\ reply = NoTicket

\* C14: get(id) on an id that has no entry returns PodManagerNotFound with
\* that id and changes neither the registry nor any Pod Manager; get(id) on
\* an id that has an entry returns the manager inserted for that id, and the
\* request goes on into that manager.
C14_GetFindsWhatWasInserted ==
    /\ [](\A id \in Ids :
            IF id \in cache
              THEN get(id).ok /\ get(id).manager = id
              ELSE /\ ~get(id).ok
                   /\ get(id).error.err = "PodManagerNotFound"
                   /\ get(id).error.id = id)
    /\ [][refreshCalls' = refreshCalls + 1
            => LET r == ticketLog'[Len(ticketLog')]
               IN IF Len(ticketLog') = Len(ticketLog) + 1
                       /\ r.err = "PodManagerNotFound"
                    THEN /\ r.id \notin cache
                         /\ cache' = cache
                         /\ lock' = lock /\ reqPc' = reqPc /\ refreshQ' = refreshQ
                    ELSE /\ PodId \in cache
                         /\ lock = "free"
                         /\ \/ reqPc' = "ticket" /\ lock' = "refresh"
                            \/ r.err = "RefreshChannelClosed"]_vars

\* C14 witness: a refresh found the manager and got a ticket; after the
\* reaper removed the entry a refresh of the same id got PodManagerNotFound
C14_Witness ==
    /\ removals = 1
    /\ \E i, j \in DOMAIN ticketLog :
         /\ i < j
         /\ ticketLog[i].ok
         /\ ticketLog[j].err = "PodManagerNotFound" /\ ticketLog[j].id = PodId

\* C15: at most one HTTP caller is inside wait or refresh of the Pod Manager
\* at a time.  The mutex is held exactly while a request is inside; while it
\* is held its holder does not change, the request inside moves only along
\* its own path (barrier, recv, then the follow-up refresh, then return), no
\* second refresh request reaches the GC and no second wait() result is
\* returned; a /refresh that arrives meanwhile completes only as not found.
C15_OneCallerInsideManager ==
    /\ [](/\ (lock = "free") <=> (reqPc = "idle")
          /\ lock = "refresh" => reqPc = "ticket"
          /\ reqPc \in {"barrier", "recv"} => lock = "wait")
    /\ [][lock # "free"
            => /\ lock' \in {lock, "free"}
               /\ reqPc = "barrier" => reqPc' \in {"barrier", "recv"}
               /\ reqPc = "recv" => reqPc' \in {"recv", "ticket", "idle"}
               /\ reqPc = "ticket" => /\ reqPc' \in {"ticket", "idle"}
                                      /\ refreshQ' <= refreshQ
                                      /\ waitLog' = waitLog
               /\ reqPc = "barrier" => waitLog' = waitLog /\ refreshQ' = refreshQ
               /\ Len(waitLog') <= Len(waitLog) + 1
               /\ refreshCalls' # refreshCalls
                    => /\ reqPc' = reqPc /\ lock' = lock /\ refreshQ' = refreshQ
                       /\ ticketLog'[Len(ticketLog')].err = "PodManagerNotFound"]_vars

\* C15 witness: a /wait is blocked in recv() holding the mutex while the id is
\* registered and callers of /wait and /refresh are still to come
C15_Witness ==
    /\ lock = "wait" /\ reqPc = "recv"
    /\ PodId \in cache
    /\ refreshCalls < MaxRefreshes
    /\ Len(waitLog) < MaxWaits
    /\ outbound = <<>> /\ ~ShimDone

\* C16: the client abandons the pod.  Once the watcher has delivered the
\* healthy verdict and no wait() ever arrives, the shim gives up after its
\* patience and exits, and the pod is eventually deleted, the watcher, the GC
\* and the shim have exited and the id is absent from the registry for good.
C16_AbandonedPodIsCollected ==
    (verdictLog # <<>> /\ verdictLog[1].ok)
        ~> (/\ shimPc = "expired"
            /\ [](podDeleted /\ WatcherDone /\ GcDone /\ ShimDone
                  /\ PodId \notin cache))

\* C16, as far as it holds: the same, for the runs in which the GC's label
\* patch does not fail and the reaper does not run before new_podmanager's
\* insert; and the shim gives up in every run.
C16_CollectedUnlessPatchFailsOrReapedEarly ==
    /\ (verdictLog # <<>> /\ verdictLog[1].ok) ~> [](shimPc = "expired")
    /\ \/ <>(gcPc = "panicked")
       \/ <>(reaperPc = "done" /\ deployPc = "spawned")
       \/ (verdictLog # <<>> /\ verdictLog[1].ok)
            ~> [](podDeleted /\ WatcherDone /\ GcDone /\ ShimDone
                  /\ reaperPc = "done" /\ PodId \notin cache)

\* C17: a run of the Health Checker emits at most one value.  While it runs
\* it has emitted nothing; a value once emitted is never replaced; a run ends
\* either with one of Ok, TooManyFailures, NotReady emitted or, only when the
\* cancellation signal was there to observe, with nothing emitted; the step
\* that observes the cancellation emits nothing; a run that has ended does
\* not start again.
C17_CheckerEmitsAtMostOnce ==
    /\ [](hcPc \in {"backoff", "connect"} => hcOut = "none")
    /\ [](hcOut \in {"none", "Ok", "TooManyFailures", "NotReady"})
    /\ [][hcOut # "none" => hcOut' = hcOut]_vars
    /\ [][(hcPc # "done" /\ hcPc' = "done")
            => \/ hcOut = "none" /\ hcOut' \in {"Ok", "TooManyFailures", "NotReady"}
               \/ sigint /\ hcOut' = "none"]_vars
    /\ [][CheckSigint => hcPc' = "done" /\ hcOut' = "none"]_vars
    /\ [][hcPc = "done" => hcPc' = "done"]_vars

\* C17 witness: a cancelled run has exited without a value
C17_Witness ==
    /\ hcPc = "done" /\ hcOut = "none"
    /\ wPc = "p2_kill" /\ wErr = "PodDeleted"

\* C18: the Health Checker produces its result no later than
\* MAXIMUM_POLLING_TIME seconds after its first attempt (which is made within
\* the first second): whenever a value is emitted, the time elapsed, with the
\* patience slept out when the value is NotReady, is at most thirty seconds.
C18_ResultWithinPollingTime ==
    [][(hcOut = "none" /\ hcOut' # "none")
         => elapsed + (IF hcOut' = "NotReady" THEN patience ELSE 0)
               <= MAXIMUM_POLLING_TIME]_vars

\* the last entry of a log
Last(log) == log[Len(log)]

\* a wait() has just returned the result r to the /wait handler
WaitReturned(r) == waitLog' = Append(waitLog, r)

\* the /wait handler has just got the answer r of its refresh
WaitRefreshed(r) ==
    /\ lock = "wait" \/ waitLog' # waitLog
    /\ refreshCalls' = refreshCalls
    /\ ticketLog' = Append(ticketLog, r)

\* C19: when wait() returns Ok(pod) the /wait handler issues one refresh and
\* returns {pod, ticket} with ticket.ticket the pod id; when wait() returns
\* an error it sends no refresh and no ticket is issued.
C19_WaitOkReturnsTicket ==
    [][/\ \A r \in {waitLog'[i] : i \in DOMAIN waitLog'} :
            WaitReturned(r) /\ ~r.ok
               => /\ refreshQ' = refreshQ /\ ticketLog' = ticketLog
                  /\ reqPc' = "idle" /\ lock' = "free"
       /\ \A r \in {ticketLog'[i] : i \in DOMAIN ticketLog'} :
            WaitRefreshed(r) /\ r.err # "PodManagerNotFound"
               => r.ok /\ r.ticket.ticket = PodId]_vars

\* C19 as amended: the refresh of a /wait whose wait() returned Ok(pod) may
\* fail, and then the handler returns RefreshChannelClosed and no ticket.
C19_TicketOnlyAfterWaitOk ==
    [][/\ \A r \in {waitLog'[i] : i \in DOMAIN waitLog'} :
            WaitReturned(r)
               => IF r.ok
                    THEN \/ /\ reqPc' = "ticket" /\ lock' = "wait"
                            /\ refreshQ' = refreshQ + 1
                            /\ ticketLog' = ticketLog
                         \/ /\ reqPc' = "idle" /\ lock' = "free"
                            /\ refreshQ' = refreshQ
                            /\ ticketLog' = Append(ticketLog, RefreshChannelClosed)
                    ELSE /\ refreshQ' = refreshQ /\ ticketLog' = ticketLog
                         /\ reqPc' = "idle" /\ lock' = "free"
       /\ \A r \in {ticketLog'[i] : i \in DOMAIN ticketLog'} :
            WaitRefreshed(r) /\ r.err # "PodManagerNotFound"
               => /\ waitLog' # <<>> /\ Last(waitLog').ok
                  /\ IF r.ok THEN r.ticket.ticket = PodId
                             ELSE r.err = "RefreshChannelClosed"]_vars

\* C19 witness: a first /wait got Ok(pod) and its ticket; the pod was then
\* deleted and the GC returned; a second /wait got the memoized Ok(pod) and
\* RefreshChannelClosed from its refresh
C19_Witness ==
    /\ refreshCalls = 0 /\ gcPc = "done"
    /\ Len(waitLog) = 2 /\ waitLog[1].ok /\ waitLog[2].ok
    /\ Len(ticketLog) = 2
    /\ ticketLog[1].ok /\ ticketLog[1].ticket.ticket = PodId
    /\ ticketLog[2] = RefreshChannelClosed

C21_NoCountdownBeforeRunning ==
    gcPc = "armed" => keep_alive = NoTicket /\ ~TicketPending /\ "gc" \notin deleteBy

\* C22: a failed label patch is not fatal to the GC.  Whatever the patch
\* returns, at the start of the countdown or after a refresh, the GC goes on
\* to count with the ticket it holds: the task has not ended, the deadline
\* is the one it had and the refresh requests that wait are still queued.
C22_PatchFailureNotFatal ==
    [][gcPc = "patch" /\ gcPc' # "patch"
         => /\ gcPc' = "counting" /\ ~GcDone'
            /\ keep_alive' = keep_alive
            /\ refreshQ' = refreshQ /\ status' = status]_vars

\* the watch event Applied(p)
Applied(p) == [type |-> "Applied", pod |-> p, exhausted |-> FALSE]

\* what the watcher does with Applied(p) in Phase 1, by the fixed priority
\* running, then terminated or crashed, then ErrImagePull
Classified(p) ==
    IF p.running
      THEN /\ pod' = p
           /\ sentLog' = Append(sentLog, Running(p))
           /\ status' = Append(status, Running(p))
           /\ \/ wPc' = "p2" /\ hcPc' = "backoff" /\ p.address /\ wErr' = wErr
              \/ wPc' = "t_send" /\ wErr' = "PodHasNoIp" /\ ~p.address
                   /\ hcPc' = hcPc
    ELSE IF p.terminated \/ p.crashed
      THEN /\ wPc' = "t_send" /\ wErr' = "PodCrashed"
           /\ UNCHANGED <<pod, stVars, hcVars>>
    ELSE IF p.err_image_pull
      THEN /\ wPc' = "t_send" /\ wErr' = "ErrImagePull"
           /\ UNCHANGED <<pod, stVars, hcVars>>
    ELSE UNCHANGED <<wPc, wErr, pod, stVars, hcVars>>

\* C23: in Phase 1 every Applied(p) is handled, and by the fixed priority:
\* a running p is sent to the GC as Running(p), saved, and Phase 2 begins
\* (with the health check, or with PodHasNoIp when p has no address); else a
\* terminated or crashed p ends the watcher with PodCrashed; else an
\* ErrImagePull p ends it with ErrImagePull; else the watcher stays in
\* Phase 1.  A pod that is running and terminated or crashed is running.
C23_Phase1Classifies ==
    wPc = "p1" =>
        \A p \in PodSnapshots :
            /\ ENABLED Phase1(Applied(p))
            /\ ~ENABLED (Phase1(Applied(p)) /\ ~Classified(p))

\* C23 witness: a pod with a running container and failed ones was taken as
\* running: it is saved, the GC has its Running signal, and Phase 2 has
\* ended on its missing address
C23_Witness ==
    /\ pod.running /\ pod.terminated /\ pod.crashed
    /\ sentLog # <<>> /\ sentLog[1] = Running(pod)
    /\ wErr = "PodHasNoIp" /\ wPc = "done"

\* a watch event that carries no pod this model looks at
Event(t) == [type |-> t, pod |-> PodDefault, exhausted |-> FALSE]

\* the watcher is inside terminate(e) or has returned from it
Terminating(e) == wErr = e /\ wPc \in {"t_send", "t_gc", "t_pod", "done"}

\* C24: Restarted is tolerated only before the running phase.  In Phase 1
\* every Restarted and every Added can be received and changes nothing: the
\* watcher stays in Phase 1 and sends nothing.  In Phase 2 a Restarted that
\* the watcher receives makes it cancel the checker and terminate with
\* PodRebooted; in Phase 3 it makes it terminate with PodRebooted; the
\* watcher sends nothing else first.  PodRebooted is the watcher's error only
\* after it sent Running for a running pod.
C24_RestartedOnlyBeforeRunning ==
    /\ wPc = "p1" =>
          \A t \in {"Restarted", "Added"} :
              /\ ENABLED Phase1(Event(t))
              /\ ~ENABLED (/\ Phase1(Event(t))
                           /\ ~UNCHANGED <<wPc, wErr, pod, stVars, hcVars, inVars,
                                           k8sVars>>)
    /\ wPc = "p2" =>
          /\ ENABLED Phase2K8s(Event("Restarted"))
          /\ ~ENABLED (/\ Phase2K8s(Event("Restarted"))
                       /\ ~(/\ wPc' = "p2_kill" /\ wErr' = "PodRebooted"
                            /\ (~HcDone => sigint')
                            /\ UNCHANGED <<stVars, inVars>>))
    /\ wPc = "p3" =>
          /\ ENABLED Phase3(Event("Restarted"))
          /\ ~ENABLED (/\ Phase3(Event("Restarted"))
                       /\ ~(/\ wPc' = "t_send" /\ wErr' = "PodRebooted"
                            /\ UNCHANGED <<stVars, inVars>>))
    /\ wPc = "p2_kill" /\ wErr = "PodRebooted" =>
          ~ENABLED (Phase2Killed /\ ~Terminating("PodRebooted")')
    /\ wErr = "PodRebooted" =>
          /\ pod.running /\ sentLog # <<>> /\ sentLog[1] = Running(pod)
          /\ wPc \in {"p2_kill", "t_send", "t_gc", "t_pod", "done"}

\* C24 witness: Restarted arrived during the health check; the watcher
\* cancelled the checker, delivered PodRebooted as the only verdict, signalled
\* the GC, deleted the pod and returned
C24_Witness ==
    /\ wErr = "PodRebooted" /\ WatcherDone
    /\ hcOut = "none" /\ HcDone
    /\ verdictLog = <<Err("PodRebooted")>>
    /\ Last(sentLog) = Terminated
    /\ "watcher" \in deleteBy

\* the Health Checker task exists and has not returned
CheckerRunning == hcPc \in {"backoff", "connect"}

\* C25: the Health Checker has returned before the watcher leaves Phase 2.
\* While the checker runs the watcher is in Phase 2 (in its select, or in
\* kill awaiting the checker's handle), it has delivered no verdict, has not
\* sent Terminated and has deleted nothing; so no checker runs in terminate,
\* at the delivery of Ok(pod), in Phase 3 or after the watcher returned.  And
\* every step out of Phase 2 is taken with the checker already returned.
C25_CheckerGoneBeforeVerdict ==
    /\ CheckerRunning =>
          /\ wPc \in {"p2", "p2_kill"}
          /\ verdictLog = <<>> /\ inbound = <<>>
          /\ \A i \in DOMAIN sentLog : sentLog[i] # Terminated
          /\ "watcher" \notin deleteBy
    /\ wPc \in {"p2", "p2_kill"} =>
          ~ENABLED (/\ Phase2Killed \/ Phase2HealthCheck
                    /\ ~(HcDone /\ HcDone' /\ wPc' \in {"t_send", "ok_send"}))
    /\ wPc \in {"ok_send", "p3"} \/ (wPc \in {"t_send", "t_gc", "t_pod", "done"}
                                     /\ pod.running /\ pod.address)
          => HcDone

\* C25 witness: the pod was deleted during the health check; the watcher
\* cancelled the checker, which returned without a value, and only then
\* entered terminate, where it is about to deliver PodDeleted
C25_Witness ==
    /\ wPc = "t_send" /\ wErr = "PodDeleted"
    /\ HcDone /\ hcOut = "none"
    /\ verdictLog = <<>>

\* C26: Deleted in Phase 3 is the normal end of life.  In Phase 3 the
\* Deleted event of a deleted pod can be received, and the step that
\* receives it sends Terminated to the GC and ends the watcher, sends no
\* verdict, deletes nothing and records no error.  A watcher that has
\* returned without an error has delivered Ok(pod) and nothing else, sent
\* Terminated last, and issued no pod delete.
C26_Phase3DeletedIsNormalEnd ==
    /\ wPc = "p3" /\ podDeleted =>
          /\ ENABLED Phase3(Event("Deleted"))
          /\ ~ENABLED (/\ Phase3(Event("Deleted"))
                       /\ ~(/\ wPc' = "done" /\ wErr' = "none"
                            /\ sentLog' = Append(sentLog, Terminated)
                            /\ UNCHANGED <<inVars, k8sVars, pod>>))
    /\ WatcherDone /\ wErr = "none" =>
          /\ verdictLog = <<Ok(pod)>>
          /\ Last(sentLog) = Terminated
          /\ "watcher" \notin deleteBy /\ podDeleted

\* C26 witness: the client deleted the healthy pod; the watcher received
\* Deleted in Phase 3, told the GC, which returned on it, and returned
C26_Witness ==
    /\ WatcherDone /\ wErr = "none"
    /\ sentLog = <<Running(pod), Terminated>> /\ status = <<>>
    /\ gcPc = "done" /\ deleteBy = {"client"}
    /\ verdictLog = <<Ok(pod)>>

\* the watcher has sent Terminated to the GC
SentTerminated == \E i \in DOMAIN sentLog : sentLog[i] = Terminated

\* the watcher is in terminate(err), or has returned from it (the failed
\* delivery of Ok(pod) runs kill_gc and kill_pod without terminate)
InTerminate ==
    /\ wPc \in {"t_send", "t_gc", "t_pod", "done"}
    /\ wErr \notin {"none", "SendChannelClose"}

\* C27: terminate(err) delivers, signals, deletes, in this order.  Before
\* its first step nothing of the three has happened; its first step attempts
\* the delivery of Err(err) and goes on whether or not the shim is there to
\* take it; its second step sends Terminated and goes on whether or not the
\* GC is there to take it; its third step issues the pod delete and returns.
\* So inside terminate Terminated has been sent only after the delivery was
\* attempted, and the watcher has deleted only after Terminated was sent.
C27_TerminateInOrder ==
    /\ InTerminate =>
          /\ wPc = "t_send" => ~SentTerminated /\ "watcher" \notin deleteBy
          /\ wPc = "t_gc" => /\ Last(verdictLog) = Err(wErr)
                             /\ ~SentTerminated /\ "watcher" \notin deleteBy
          /\ wPc = "t_pod" => /\ Last(verdictLog) = Err(wErr)
                              /\ Last(sentLog) = Terminated
                              /\ "watcher" \notin deleteBy
          /\ wPc = "done" => /\ Last(verdictLog) = Err(wErr)
                             /\ Last(sentLog) = Terminated
                             /\ "watcher" \in deleteBy /\ podDeleted
    /\ wPc = "t_send" =>
          /\ ShimDone \/ inbound = <<>> => ENABLED TerminateSend
          /\ ~ENABLED (/\ TerminateSend
                       /\ ~(/\ wPc' = "t_gc"
                            /\ verdictLog' = Append(verdictLog, Err(wErr))
                            /\ inbound' = IF ShimDone THEN inbound
                                          ELSE Append(inbound, Err(wErr))
                            /\ UNCHANGED <<stVars, k8sVars>>))
    /\ wPc = "t_gc" =>
          /\ ENABLED TerminateKillGc
          /\ ~ENABLED (/\ TerminateKillGc
                       /\ ~(/\ wPc' = "t_pod"
                            /\ sentLog' = Append(sentLog, Terminated)
                            /\ status' = IF GcDone THEN status
                                         ELSE Append(status, Terminated)
                            /\ UNCHANGED <<inVars, k8sVars>>))
    /\ wPc = "t_pod" =>
          /\ ENABLED TerminateKillPod
          /\ ~ENABLED (/\ TerminateKillPod
                       /\ ~(/\ wPc' = "done" /\ podDeleted'
                            /\ "watcher" \in deleteBy'
                            /\ UNCHANGED <<inVars, stVars>>))

\* C27 witness: terminate ran to its end although neither the shim nor the
\* GC was there: the verdict was attempted and lost, Terminated was sent and
\* lost, and the pod delete was issued
C27_Witness ==
    /\ InTerminate /\ WatcherDone
    /\ ShimDone /\ gcPc = "panicked"
    /\ Last(verdictLog) = Err(wErr) /\ inbound = <<>>
    /\ Last(sentLog) = Terminated /\ status = <<>>
    /\ "watcher" \in deleteBy

\* the watch stream yields an error; exhausted: next_backoff() has no
\* interval left
StreamError(x) == [type |-> "Error", pod |-> PodDefault, exhausted |-> x]

\* the watcher is in the loop of one of its three phases
InPhase == wPc \in {"p1", "p2", "p3"}

\* C28: the watch-stream errors of all three phases are retried under the
\* one backoff of the watcher.  In each phase an error that finds the backoff
\* not exhausted can be received and leaves the watcher where it is, with
\* nothing sent, cancelled or deleted, and the backoff used; an error that
\* finds it exhausted ends the phase in terminate(KubernetesUnresponsive)
\* (in Phase 2 after the checker is cancelled), with nothing sent by that
\* step; and every event after which the watcher is still in a phase loop
\* leaves the backoff as new, so that the errors before it count no more.
\* The backoff exists as long as the watcher runs and passes from phase to
\* phase as it is.
C28_OneBackoffResetByEvents ==
    /\ (backoff = "none") <=> (wPc \in {"none", "done"})
    /\ backoff \in {"none", "fresh", "used"}
    /\ InPhase =>
         /\ ENABLED (Phase1(StreamError(FALSE)) \/ Phase2K8s(StreamError(FALSE))
                        \/ Phase3(StreamError(FALSE)))
         /\ ~ENABLED (/\ \/ Phase1(StreamError(FALSE))
                         \/ Phase2K8s(StreamError(FALSE))
                         \/ Phase3(StreamError(FALSE))
                      /\ ~(/\ backoff' = "used"
                           /\ UNCHANGED <<wPc, wErr, pod, stVars, inVars, hcVars,
                                          k8sVars>>))
         /\ ENABLED (Phase1(StreamError(TRUE)) \/ Phase2K8s(StreamError(TRUE))
                        \/ Phase3(StreamError(TRUE)))
         /\ ~ENABLED (/\ \/ Phase1(StreamError(TRUE))
                         \/ Phase2K8s(StreamError(TRUE))
                         \/ Phase3(StreamError(TRUE))
                      /\ ~(/\ wErr' = "KubernetesUnresponsive"
                           /\ wPc' = IF wPc = "p2" THEN "p2_kill" ELSE "t_send"
                           /\ wPc = "p2" /\ ~HcDone => sigint'
                           /\ UNCHANGED <<backoff, pod, stVars, inVars, k8sVars>>))
         /\ \A ev \in WatchEvents :
               ev.type # "Error" =>
                   ~ENABLED (/\ Phase1(ev) \/ Phase2K8s(ev) \/ Phase3(ev)
                             /\ InPhase'
                             /\ backoff' # "fresh")
    /\ wErr = "KubernetesUnresponsive" =>
          wPc \in {"p2_kill", "t_send", "t_gc", "t_pod", "done"}

\* C28 witness: an error was retried in Phase 2 and no event followed before
\* the health check succeeded: the watcher leaves Phase 2 with the backoff
\* as that error left it
C28_Witness ==
    /\ wPc = "ok_send" /\ backoff = "used"
    /\ hcOut = "Ok" /\ verdictLog = <<>>

\* the stream has ended: try_next() yields Ok(None)
EndOfStream == Event("EOF")

\* C29: the end of the watch stream is terminal in every phase.  In each
\* phase the end of the stream can be received, and the step that receives it
\* takes the watcher out of the phase loop into
\* terminate(UnexpectedCloseOfEventStream), in Phase 2 by way of the
\* checker's cancellation, sending nothing itself.  With that error the
\* watcher is never back in a phase loop, and in terminate it can always
\* take its second and third step; when it has returned it has attempted
\* the delivery of that error (the only verdict, or the one after Ok(pod)),
\* sent Terminated last and issued the pod delete.
C29_EndOfStreamIsTerminal ==
    /\ InPhase =>
         /\ ENABLED (Phase1(EndOfStream) \/ Phase2K8s(EndOfStream)
                        \/ Phase3(EndOfStream))
         /\ ~ENABLED (/\ \/ Phase1(EndOfStream)
                         \/ Phase2K8s(EndOfStream)
                         \/ Phase3(EndOfStream)
                      /\ ~(/\ wErr' = "UnexpectedCloseOfEventStream"
                           /\ wPc' = IF wPc = "p2" THEN "p2_kill" ELSE "t_send"
                           /\ wPc = "p2" /\ ~HcDone => sigint'
                           /\ UNCHANGED <<pod, stVars, inVars, k8sVars>>))
    /\ wErr = "UnexpectedCloseOfEventStream" =>
         /\ wPc \in {"p2_kill", "t_send", "t_gc", "t_pod", "done"}
         /\ wPc = "t_gc" => ENABLED TerminateKillGc
         /\ wPc = "t_pod" => ENABLED TerminateKillPod
         /\ WatcherDone =>
               /\ verdictLog \in {<<Err(wErr)>>, <<Ok(pod), Err(wErr)>>}
               /\ Last(sentLog) = Terminated
               /\ "watcher" \in deleteBy /\ podDeleted

\* C29 witness: the stream ended in Phase 3; the watcher attempted the
\* delivery of the error after Ok(pod), signalled the GC, deleted the pod the
\* client still held, and returned
C29_Witness ==
    /\ wErr = "UnexpectedCloseOfEventStream" /\ WatcherDone
    /\ verdictLog = <<Ok(pod), Err(wErr)>>
    /\ WaitedOk
    /\ deleteBy = {"watcher"}

\* C30: the GC's reaction to the status channel while it counts, whoever
\* holds the sender.  When Terminated is next on the channel the GC can
\* receive it, and then it returns and Kubernetes is as it was: no delete.
\* When the channel is empty and its sender dropped the GC can see that, and
\* then it issues the pod delete and returns.  When a Running is next the GC
\* takes it off the channel and counts on with its ticket, its deadline and
\* its refresh queue unchanged.  When the channel is empty and open there is
\* nothing to react to.
C30_CountingGcOnStatus ==
    gcPc = "counting" =>
        /\ status # <<>> /\ Head(status) = Terminated =>
              /\ ENABLED GcPodEvent
              /\ ~ENABLED (/\ GcPodEvent
                           /\ ~(/\ gcPc' = "done" /\ ~StatusRxOpen'
                                /\ UNCHANGED k8sVars))
        /\ status = <<>> /\ WatcherDone =>
              /\ ENABLED GcPodEvent
              /\ ~ENABLED (/\ GcPodEvent
                           /\ ~(/\ gcPc' = "done" /\ podDeleted'
                                /\ deleteBy' = deleteBy \cup {"gc"}))
        /\ status # <<>> /\ Head(status).sig = "Running" =>
              /\ ENABLED GcPodEvent
              /\ ~ENABLED (/\ GcPodEvent
                           /\ ~(/\ gcPc' = "counting" /\ keep_alive' = keep_alive
                                /\ status' = Tail(status)
                                /\ refreshQ' = refreshQ
                                /\ UNCHANGED k8sVars))
        /\ status = <<>> /\ ~WatcherDone => ~ENABLED GcPodEvent

\* C30 witness: a second Running reached the GC and was taken off the
\* channel while the deadline of its ticket came nearer; Terminated is next
C30_Witness ==
    /\ gcPc = "counting"
    /\ sentLog = <<Running(PodDefault), Running(PodDefault), Terminated>>
    /\ status = <<Terminated>>
    /\ keep_alive.execution_instant < ttl

\* the GC is handling, or is about to handle, a refresh whose requester
\* went away before the reply
ReplyDropped ==
    /\ reqPc = "idle" /\ reply = NoTicket
    /\ refreshCalls = Len(ticketLog) + 1

\* C31: a refresh whose requester dropped the reply channel before the
\* answer does not end the GC.  While the GC counts with such a request
\* queued it can take it, and then it has a fresh deadline, hands out no
\* ticket and has not ended; whatever happens next in that handler, the GC
\* is counting again with that deadline and both of its channels open.
C31_DroppedReplyKeepsGc ==
    /\ gcPc = "counting" /\ refreshQ > 0 /\ ReplyDropped =>
          /\ ENABLED GcRefresh
          /\ ~ENABLED (/\ GcRefresh
                       /\ ~(/\ ~GcDone'
                            /\ keep_alive' = KeepAliveTicket(PodId, ttl)
                            /\ reply' = NoTicket))
    /\ gcPc = "patch" /\ refreshQ = 0 /\ ReplyDropped =>
          ~ENABLED (/\ \E ok \in BOOLEAN : GcPatch(ok)
                    /\ ~(/\ gcPc' = "counting" /\ keep_alive' = keep_alive
                         /\ StatusRxOpen' /\ RefreshRxOpen'))

\* C31, the handling of the failed send alone: the GC takes the request,
\* resets its deadline and goes on to the label patch
C31_DroppedReplyIsLogged ==
    gcPc = "counting" /\ refreshQ > 0 /\ ReplyDropped =>
        /\ ENABLED GcRefresh
        /\ ~ENABLED (/\ GcRefresh
                     /\ ~(/\ gcPc' = "patch"
                          /\ keep_alive' = KeepAliveTicket(PodId, ttl)
                          /\ reply' = NoTicket /\ refreshQ' = refreshQ - 1))

\* C31 case: the GC has taken a refresh nobody waits for and is patching
C31_Case ==
    gcPc = "patch" /\ refreshQ = 0 /\ ReplyDropped

\* the error the watcher takes from an outcome of the checker that is not Ok
CheckerError == IF hcOut = "none" THEN "HealthCheckDroppedItsChannel" ELSE hcOut

\* the errors a Phase 2 health-check branch terminates with
CheckerErrors == {"TooManyFailures", "NotReady", "HealthCheckDroppedItsChannel"}

\* C32: in Phase 2 the verdict follows the outcome of the Health Checker.
\* When the checker has ended with Err(e), or without a value, the watcher
\* can take the health-check branch, and then it terminates with e itself,
\* or with HealthCheckDroppedItsChannel.  That error is the one verdict the
\* watcher hands over, a wait() that returns a verdict returns it, and the
\* watcher sends Terminated to the GC and issues the pod delete before it
\* returns.
C32_VerdictFollowsChecker ==
    /\ wPc = "p2" /\ HcDone /\ hcOut # "Ok" =>
          /\ ENABLED Phase2HealthCheck
          /\ ~ENABLED (/\ Phase2HealthCheck
                       /\ ~(wPc' = "t_send" /\ wErr' = CheckerError))
    /\ InTerminate /\ wErr \in CheckerErrors =>
          /\ CheckerError = wErr
          /\ wPc = "t_send" => verdictLog = <<>>
          /\ wPc # "t_send" => verdictLog = <<Err(wErr)>>
          /\ waitLog # <<>> =>
                \/ waitLog[1] = Err(wErr)
                \/ waitLog[1] = Err("InboundResultChannelDropped") /\ shimPc = "expired"
          /\ wPc \in {"t_pod", "done"} => Last(sentLog) = Terminated
          /\ wPc = "done" => podDeleted /\ "watcher" \in deleteBy

\* C32 witness: the checker ended without a value, the watcher has returned
\* and the consumer's wait() returned HealthCheckDroppedItsChannel
C32_Witness ==
    /\ wPc = "done" /\ hcOut = "none"
    /\ waitLog = <<Err("HealthCheckDroppedItsChannel")>>
    /\ Last(sentLog) = Terminated
    /\ deleteBy = {"watcher"}

\* C33: kill() and join() on the Health Checker always return.  While the
\* watcher is inside kill() the checker has either ended, and then kill()
\* can return at once, or it runs with the cancellation signal in its
\* channel at one of its two suspension points, and then it can take the
\* signal, which ends it.  So a kill() that was entered returns, and a
\* join() on a checker that has reported returns.
C33_KillAndJoinReturn ==
    /\ [](wPc = "p2_kill" =>
            IF HcDone
              THEN ENABLED Phase2Killed
              ELSE /\ sigint /\ hcPc \in {"backoff", "connect"}
                   /\ ENABLED CheckSigint
                   /\ ~ENABLED (CheckSigint /\ ~HcDone'))
    /\ (wPc = "p2_kill") ~> (wPc = "t_send")
    /\ (wPc = "p2" /\ HcDone) ~> (wPc # "p2")

\* C33 witness: kill() was called on a checker that was still connecting;
\* the checker has ended without a result and kill() has returned
C33_Witness ==
    /\ wPc = "t_send" /\ wErr = "PodRebooted"
    /\ HcDone /\ hcOut = "none" /\ ~sigint

\* no wait() has been called on the Pod Manager
NoConsumer == waitLog = <<>> /\ lock # "wait"

\* C34 as stated: when the health check has succeeded and no client is
\* there, the delivery of Ok(pod) fails and the watcher goes on to signal the
\* GC and delete the pod; a delivery that succeeds leads to Phase 3 with
\* nothing deleted.
C34_GivenUpFailsDelivery ==
    wPc = "ok_send" =>
        /\ ENABLED Phase2Deliver
        /\ NoConsumer =>
              ~ENABLED (Phase2Deliver /\ ~(wPc' = "t_gc" /\ wErr' = "SendChannelClose"))
        /\ ~NoConsumer =>
              ~ENABLED (Phase2Deliver /\ ~(wPc' = "p3" /\ UNCHANGED k8sVars))

\* C34, amended: the delivery of Ok(pod) succeeds whether or not a client is
\* there.  When the health check has succeeded the shim still holds its
\* receiver and no verdict has been sent, so the delivery can be made, and it
\* leads to Phase 3 with Ok(pod) handed over, no signal sent to the GC and
\* nothing deleted; in Phase 3 the watcher has neither signalled Terminated
\* nor deleted the pod.
C34_OkDeliverySucceeds ==
    /\ wPc = "ok_send" =>
          /\ InboundRxOpen /\ verdictLog = <<>>
          /\ ENABLED Phase2Deliver
          /\ ~ENABLED (/\ Phase2Deliver
                       /\ ~(/\ wPc' = "p3"
                            /\ verdictLog' = <<Ok(pod)>>
                            /\ inbound' = <<Ok(pod)>>
                            /\ UNCHANGED stVars
                            /\ UNCHANGED k8sVars))
    /\ wPc = "p3" => ~SentTerminated /\ "watcher" \notin deleteBy

\* C34 witness: no client ever called wait(); Ok(pod) was delivered, the
\* shim's patience ran out on it, the watcher is in Phase 3 and the pod is
\* still there
C34_Witness ==
    /\ wPc = "p3" /\ verdictLog = <<Ok(pod)>>
    /\ NoConsumer /\ shimPc = "expired"
    /\ ~podDeleted

\* C35: the insert of the id precedes the reaper's removal of it.  The
\* reaper has removed only after new_podmanager has inserted, so once the
\* three daemons have exited and the reaper has run, no entry for the id is
\* left in the registry.
C35_InsertPrecedesRemoval ==
    /\ removals > 0 => deployPc = "inserted"
    /\ Joined /\ reaperPc = "done" /\ deployPc = "inserted" => PodId \notin cache

\* C35, what the code does keep: an entry is left behind only by a reaper
\* that ran before the insert
C35_LeftoverOnlyWhenReapedFirst ==
    [][removals' # removals /\ deployPc = "inserted" => PodId \notin cache']_vars

\* the refresh in flight has just returned r
RefreshReturned(r) ==
    reqPc = "ticket" /\ reqPc' = "idle" /\ ticketLog' = Append(ticketLog, r)

\* C36: a refresh issued while the GC is armed waits for Running.  While the
\* GC is armed it holds no ticket, no refresh has returned a ticket and a
\* refresh in flight cannot return.  Such a refresh returns a ticket, issued
\* after the GC received Running, or it returns RefreshChannelClosed, and
\* then the watcher has terminated.  Once the watcher has sent a signal or
\* has exited the refresh returns.
C36_ArmedRefreshWaitsForRunning ==
    /\ [](gcPc = "armed" =>
            /\ keep_alive = NoTicket
            /\ \A i \in DOMAIN ticketLog : ~ticketLog[i].ok
            /\ reqPc = "ticket" => reply = NoTicket /\ ~ENABLED RefreshReply)
    /\ [][\A r \in {RefreshChannelClosed, TicketOk(reply)} :
            RefreshReturned(r) =>
              IF r.ok THEN /\ Count("Running") = 1
                           /\ r.ticket.ticket = PodId
                      ELSE SentTerminated \/ WatcherDone]_vars
    /\ (reqPc = "ticket" /\ (sentLog # <<>> \/ WatcherDone)) ~> (reqPc = "idle")

\* C36, what holds of the code: the refresh waits while the GC is armed; it
\* returns a ticket issued after Running, or RefreshChannelClosed once the
\* GC task has ended, however it ended; and it does return
C36_ArmedRefreshEndsWithGc ==
    /\ [](gcPc = "armed" =>
            /\ keep_alive = NoTicket
            /\ \A i \in DOMAIN ticketLog : ~ticketLog[i].ok
            /\ reqPc = "ticket" => reply = NoTicket /\ ~ENABLED RefreshReply)
    /\ [][\A r \in {RefreshChannelClosed, TicketOk(reply)} :
            RefreshReturned(r) =>
              IF r.ok THEN /\ Count("Running") = 1
                           /\ r.ticket.ticket = PodId
                      ELSE GcDone]_vars
    /\ (reqPc = "ticket" /\ (sentLog # <<>> \/ WatcherDone)) ~> (reqPc = "idle")


\* C36 witness: a refresh sent while the GC was armed has returned the
\* ticket the GC issued after it received Running, and the GC counts
C36_Witness ==
    /\ gcPc = "counting" /\ sentLog = <<Running(pod)>>
    /\ refreshCalls = 1 /\ Len(ticketLog) = 1 /\ ticketLog[1].ok
    /\ ticketLog[1].ticket.ticket = PodId

\* C37: after the shim's patience has expired no wait() returns Ok(pod).
\* The first wait() to return has InboundResultChannelDropped, every later
\* one PhantomError, and a wait() that has passed the barrier can return
\* nothing else, whatever verdict the watcher had handed over and whatever
\* the watcher does now.
C37_NoOkAfterPatience ==
    shimPc = "expired" =>
        /\ \A i \in DOMAIN waitLog :
              waitLog[i] = IF i = 1 THEN Err("InboundResultChannelDropped")
                           ELSE Err("PhantomError")
        /\ waitLog # <<>> => phantom = Err("PhantomError")
        /\ reqPc = "recv" =>
              /\ ENABLED WaitRecv
              /\ ~ENABLED (/\ WaitRecv
                           /\ ~WaitReturned(Err("InboundResultChannelDropped")))

\* C37 witness: the watcher delivered Ok(pod) and is in Phase 3, the pod is
\* there, the shim's patience ran out, and two wait() calls have returned
\* InboundResultChannelDropped and PhantomError
C37_Witness ==
    /\ shimPc = "expired" /\ wPc = "p3" /\ verdictLog = <<Ok(pod)>>
    /\ ~podDeleted
    /\ waitLog = <<Err("InboundResultChannelDropped"), Err("PhantomError")>>

\* C38: no channel send blocks the Event Watcher for ever.  Over its whole
\* run the watcher sends at most two verdicts and at most two signals; the
\* status channel never fills, so a status send is never held up, with or
\* without the GC; a verdict send is held up only while the first verdict
\* sits in the channel and the shim is there to take it, and the second
\* verdict is sent only after the shim has taken the first.  So a watcher
\* that delivers Ok(pod) goes on, and a watcher that enters terminate
\* completes it and exits.
C38_SendsNeverBlockForever ==
    /\ [](/\ Len(verdictLog) <= 2 /\ Len(sentLog) <= 2
          /\ Len(status) < STATUS_CAPACITY
          /\ Len(verdictLog) = 2 => shimPc # "recv" /\ shimResult # verdictLog[2])
    /\ [](wPc = "t_gc" => ENABLED TerminateKillGc)
    /\ [](wPc = "t_send" =>
            \/ ENABLED TerminateSend
            \/ inbound = <<verdictLog[1]>> /\ shimPc = "recv" /\ ENABLED ShimRecv)
    /\ [](wPc = "ok_send" => ENABLED Phase2Deliver)
    /\ (wPc = "ok_send") ~> (wPc # "ok_send")
    /\ (wPc = "t_send") ~> (wPc = "done")

\* C38 witness: the watcher sent two verdicts and two signals and exited
\* with the shim expired and the GC gone before its Terminated
C38_Witness ==
    /\ wPc = "done" /\ Len(verdictLog) = 2 /\ Len(sentLog) = 2
    /\ shimPc = "expired" /\ inbound = <<>>
    /\ gcPc = "panicked" /\ status = <<>>

\* C39: the reaper removes by id alone.  When the daemons of the earlier
\* Pod Manager have joined while the id is mapped to a later Pod Manager
\* whose daemons still run, the earlier reaper can run, and what it does is
\* remove that entry: the id is no longer in the registry and the later Pod
\* Manager runs on.
C39_ReaperRemovesById ==
    reaperPc = "join" /\ Joined /\ owner = "second" /\ later = "running" =>
        /\ PodId \in cache
        /\ ENABLED Reaper
        /\ ~ENABLED (/\ Reaper
                     /\ ~(/\ PodId \notin cache' /\ owner' = "none"
                          /\ later' = "running" /\ removals' = 1))

\* C39 witness: the earlier reaper has run, the later Pod Manager's daemons
\* still run and its entry is gone
C39_Witness ==
    /\ reaperPc = "done" /\ removals = 1
    /\ later = "running"
    /\ PodId \notin cache /\ owner = "none"

\* the connect attempt of the checker fails and the backoff is exhausted
ConnectFailsExhausted == CheckConnect(FALSE, TRUE)

\* C40: the exhausted branch always has a last error.  TooManyFailures is
\* emitted by a checker that then returns.  From the backoff sleep, where
\* the checker is on its first iteration as long as no error is recorded, no
\* step emits TooManyFailures.  A connect attempt that fails with the
\* backoff exhausted emits TooManyFailures and never ends the task without a
\* value; one that fails and loops back has recorded its error.  So a
\* checker that has ended without a value was cancelled by the watcher.
C40_ExhaustedHasLastError ==
    /\ hcOut = "TooManyFailures" => HcDone
    /\ hcPc = "backoff" =>
          ~ENABLED (CheckStep /\ hcOut' = "TooManyFailures")
    /\ hcPc = "connect" =>
          /\ ENABLED ConnectFailsExhausted
          /\ ~ENABLED (/\ ConnectFailsExhausted
                       /\ ~(hcOut' = "TooManyFailures" /\ HcDone'))
          /\ ~ENABLED (/\ \E x \in BOOLEAN : CheckConnect(FALSE, x)
                       /\ hcPc' = "backoff" /\ ~latest_error')
    /\ HcDone /\ hcOut = "none" =>
          wPc \in {"p2_kill", "t_send", "t_gc", "t_pod", "done"}

\* C40 witness: the checker has emitted TooManyFailures and returned, and
\* the watcher has not yet taken the outcome
C40_Witness ==
    /\ hcPc = "done" /\ hcOut = "TooManyFailures"
    /\ wPc = "p2"

====
